---- MODULE Spec2Model ----
(***************************************************************************)
(* Model of the painting editor's layer store (layers.js), per-layer       *)
(* history manager (history.js), floating selection (selection.js), flood  *)
(* fill (canvas.js), view transform (viewport.js) and the button, key,     *)
(* pointer, wheel and drag-and-drop handlers (ui.js, layers.js) that drive *)
(* them.                                                                   *)
(*                                                                         *)
(* A layer is a record [id, px]: id is the Date.now() timestamp taken when *)
(* the layer was created, px is the content of its off-screen canvas.  A   *)
(* history entry is the ImageData snapshot of a canvas, i.e. a value of    *)
(* the same kind as px.  The two Maps of history.js are functions whose    *)
(* DOMAIN is the Map's key set.                                            *)
(***************************************************************************)
EXTENDS Integers, Sequences, FiniteSets, TLC

VARIABLES
    now,               \* the reading Date.now() returns
    layers,            \* layers.js `layers`: index 1 is the top layer
    activeLayerId,     \* layers.js `activeLayerId`
    historyByLayer,    \* history.js `historyByLayer`
    redoStackByLayer,  \* history.js `redoStackByLayer`
    isInteracting,     \* ui.js `isInteracting`
    interactionLayer,  \* ui.js `interactionLayer`: index into layers, or 0 for null
    isDrawing,         \* canvas.js `isDrawing`
    activeTool,        \* ui.js `activeTool`
    lastPoint,         \* ui.js `lastClientX`, `lastClientY`, in canvas coordinates
    selection,         \* selection.js `selectionState`
    fill,              \* the flood fill in progress: its locals, and counts of its work
    viewport,          \* viewport.js `zoom`, `offsetX`, `offsetY`, `isPanning`, `panStartX`, `panStartY`
    used,              \* number of paint inputs consumed so far (bounds the run)
    log                \* the last handlers that ran, newest last (observation only)

vars == <<now, layers, activeLayerId, historyByLayer, redoStackByLayer,
          isInteracting, interactionLayer, isDrawing, activeTool, lastPoint,
          selection, fill, viewport, used, log>>

----------------------------------------------------------------------------
(* Bounds of the model *)

MaxEdits == 1
MaxStrokes == 1
MaxLayers == 3
MaxClock == 3

\* The canvas is CanvasWidth pixels wide and one pixel row high.
CanvasWidth == 2

\* Pointer gestures per run, points per lasso path and entries per
\* sub-history in the runs of the selection handlers.
MaxGestures == 3
MaxPath == 3
MaxSubHistory == 3

\* Entries per sub-history in the runs that only delete, undo and redo.
MaxDeepSubHistory == 31
MaxViewportEvents == 3

\* Width and height of the surfaces flood fill is run on by itself.
FillWidth == 2
FillHeight == 2

(* Program constants *)

HISTORY_LIMIT == 30

\* colorsMatch: the tolerance per channel.
threshold == 30

NULL == "null"

\* JavaScript null where a layer id is expected (timestamps are positive).
NoId == 0

\* A pixel is transparent ("t") or opaque with one of the colours "a", "b",
\* "c".  A canvas one row high is the sequence of its pixels: element k is
\* the pixel at x = k - 1, y = 0.

\* The content of a freshly created canvas: fully transparent.
Blank == [k \in 1..CanvasWidth |-> "t"]

\* A canvas painted all over, in alternating colours.
Ink == [k \in 1..CanvasWidth |-> IF k % 2 = 1 THEN "a" ELSE "b"]

\* The contents a stroke on a layer can leave: untouched, or painted.
Surfaces == {Blank, Ink}

\* colorPicker.value while a floating selection is painted on.
BrushColor == "c"

\* JavaScript null where a canvas or an ImageData is expected.
NoCanvas == <<>>

\* The pointer positions, in canvas coordinates: the corners of the pixels.
Points == {[x |-> a, y |-> b] : a \in 0..(CanvasWidth - 1), b \in 0..1}

\* The pointer position of the gestures that do not read it.
Origin == [x |-> 0, y |-> 0]

\* The tool buttons the model clicks.
Tools == {"brush", "lasso", "move"}

----------------------------------------------------------------------------
(* JavaScript Map and Array helpers *)

MapHas(m, k) == k \in DOMAIN m

MapSet(m, k, v) == [x \in (DOMAIN m) \cup {k} |-> IF x = k THEN v ELSE m[x]]

MapDelete(m, k) == [x \in (DOMAIN m) \ {k} |-> m[x]]

Last(s) == s[Len(s)]

\* Array.prototype.pop: the array without its last element.
Front(s) == SubSeq(s, 1, Len(s) - 1)

\* Array.prototype.findIndex over layers, 1-based; 0 when nothing matches.
FindIndex(ls, id) ==
    IF \E i \in 1..Len(ls) : ls[i].id = id
    THEN CHOOSE i \in 1..Len(ls) :
            /\ ls[i].id = id
            /\ \A j \in 1..(i - 1) : ls[j].id # id
    ELSE 0

\* Array.prototype.splice(index, 1): the array without the element at i.
RemoveAt(s, i) == SubSeq(s, 1, i - 1) \o SubSeq(s, i + 1, Len(s))

----------------------------------------------------------------------------
(* history.js: the per-layer history manager.  hs is the pair of Maps      *)
(* [h |-> historyByLayer, r |-> redoStackByLayer]; each function returns   *)
(* the Maps after the call.                                                *)

HistoryStore == [h |-> historyByLayer, r |-> redoStackByLayer]

initializeHistoryForLayer(hs, layerId, px) ==
    [h |-> MapSet(hs.h, layerId, <<px>>),
     r |-> MapSet(hs.r, layerId, <<>>)]

deleteHistoryForLayer(hs, layerId) ==
    [h |-> MapDelete(hs.h, layerId),
     r |-> MapDelete(hs.r, layerId)]

saveStateKeepsRedo(hs, layerId, px) ==
    IF ~MapHas(hs.h, layerId) THEN hs
    ELSE LET history == hs.h[layerId]
             shifted == IF Len(history) > HISTORY_LIMIT THEN Tail(history) ELSE history
         IN  [h |-> [hs.h EXCEPT ![layerId] = Append(shifted, px)],
              r |-> hs.r]

saveStateCreates(hs, layerId, px) ==
    LET history == IF MapHas(hs.h, layerId) THEN hs.h[layerId] ELSE <<>>
        shifted == IF Len(history) > HISTORY_LIMIT THEN Tail(history) ELSE history
    IN  [h |-> MapSet(hs.h, layerId, Append(shifted, px)),
         r |-> MapSet(hs.r, layerId, <<>>)]

\* saveState: the length test precedes the push.
saveState(hs, layerId, px) ==
    IF ~MapHas(hs.h, layerId) THEN hs
    ELSE LET history == hs.h[layerId]
             shifted == IF Len(history) > HISTORY_LIMIT THEN Tail(history) ELSE history
         IN  [h |-> [hs.h EXCEPT ![layerId] = Append(shifted, px)],
              r |-> MapSet(hs.r, layerId, <<>>)]

undoBroken(hs, layerId, px) ==
    IF MapHas(hs.h, layerId) /\ Len(hs.h[layerId]) > 0
    THEN LET history == Front(hs.h[layerId])
         IN  [h |-> [hs.h EXCEPT ![layerId] = history],
              r |-> [hs.r EXCEPT ![layerId] = Append(@, Last(hs.h[layerId]))],
              px |-> IF Len(history) > 0 THEN Last(history) ELSE px]
    ELSE [h |-> hs.h, r |-> hs.r, px |-> px]

\* undo: returns the Maps and the content of the canvas behind ctx.
undo(hs, layerId, px) ==
    IF MapHas(hs.h, layerId) /\ Len(hs.h[layerId]) > 1
    THEN LET history == Front(hs.h[layerId])
         IN  [h |-> [hs.h EXCEPT ![layerId] = history],
              r |-> [hs.r EXCEPT ![layerId] = Append(@, Last(hs.h[layerId]))],
              px |-> Last(history)]
    ELSE [h |-> hs.h, r |-> hs.r, px |-> px]

redoWithoutPush(hs, layerId, px) ==
    IF MapHas(hs.r, layerId) /\ Len(hs.r[layerId]) > 0
    THEN [h |-> hs.h,
          r |-> [hs.r EXCEPT ![layerId] = Front(@)],
          px |-> Last(hs.r[layerId])]
    ELSE [h |-> hs.h, r |-> hs.r, px |-> px]

\* redo: returns the Maps and the content of the canvas behind ctx.
redo(hs, layerId, px) ==
    IF MapHas(hs.r, layerId) /\ Len(hs.r[layerId]) > 0
    THEN LET nextState == Last(hs.r[layerId])
         IN  [h |-> [hs.h EXCEPT ![layerId] = Append(@, nextState)],
              r |-> [hs.r EXCEPT ![layerId] = Front(@)],
              px |-> nextState]
    ELSE [h |-> hs.h, r |-> hs.r, px |-> px]

getHistoryLength(hs, layerId) ==
    IF MapHas(hs.h, layerId) THEN Len(hs.h[layerId]) ELSE 0

getRedoStackLength(hs, layerId) ==
    IF MapHas(hs.r, layerId) THEN Len(hs.r[layerId]) ELSE 0

----------------------------------------------------------------------------
(* layers.js: the layer store.  ls is [layers, activeLayerId, events]:     *)
(* events counts the 'activelayerchanged' events dispatched so far by the  *)
(* handler that is running.  Each function returns the store after the     *)
(* call.  Layer names, visibility and opacity play no part here.           *)

LayerStore == [layers |-> layers, activeLayerId |-> activeLayerId, events |-> 0]

\* document.getElementById('layers-list'): the page main.js runs in has it.
layersListPresent == TRUE

setActiveLayerAlways(ls, id) ==
    [ls EXCEPT !.activeLayerId = id, !.events = @ + 1]

setActiveLayer(ls, id) ==
    IF ls.activeLayerId = id THEN ls
    ELSE IF ~layersListPresent THEN ls
    ELSE [ls EXCEPT !.activeLayerId = id, !.events = @ + 1]

addNewLayerAtBottom(ls, t) ==
    setActiveLayer([ls EXCEPT !.layers = @ \o <<[id |-> t, px |-> Blank]>>], t)

\* addNewLayer: t is the reading of Date.now(); the new layer is layers[1].
addNewLayer(ls, t) ==
    setActiveLayer([ls EXCEPT !.layers = <<[id |-> t, px |-> Blank]>> \o @], t)

Max(a, b) == IF a >= b THEN a ELSE b

deleteActiveLayerKeepsActive(ls) ==
    IF Len(ls.layers) <= 1 THEN ls
    ELSE LET index == FindIndex(ls.layers, ls.activeLayerId) IN
         IF index > 0 THEN [ls EXCEPT !.layers = RemoveAt(ls.layers, index)]
         ELSE ls

\* deleteActiveLayer: with 1-based indices Math.max(0, index - 1) is
\* Max(1, index - 1).
deleteActiveLayer(ls) ==
    IF Len(ls.layers) <= 1 THEN ls
    ELSE LET index == FindIndex(ls.layers, ls.activeLayerId) IN
         IF index > 0
         THEN LET rest == RemoveAt(ls.layers, index)
                  newActiveIndex == Max(1, index - 1)
                  newActiveId == IF newActiveIndex <= Len(rest)
                                 THEN rest[newActiveIndex].id ELSE NoId
              IN  setActiveLayer([ls EXCEPT !.layers = rest], newActiveId)
         ELSE ls

\* getActiveLayer: the index of the active layer, 0 for null.
getActiveLayer(ls) == FindIndex(ls.layers, ls.activeLayerId)

\* Array.prototype.splice(index, 0, x) with the 1-based index i: x becomes
\* the i-th element, or the last one when i is beyond the end.
InsertAt(s, i, x) ==
    IF i > Len(s) THEN Append(s, x)
    ELSE SubSeq(s, 1, i - 1) \o <<x>> \o SubSeq(s, i, Len(s))

\* handleDrop, for a drop of the list item of srcId on another item, that
\* of targetId; dropBelow is whether the target item carries 'drop-below'.
handleDrop(ls, srcId, targetId, dropBelow) ==
    LET srcIndex == FindIndex(ls.layers, srcId)
        targetIndex == FindIndex(ls.layers, targetId)
        removed == ls.layers[srcIndex]
        rest == RemoveAt(ls.layers, srcIndex)
        adjusted == IF srcIndex < targetIndex THEN targetIndex - 1 ELSE targetIndex
        insertIndex == IF dropBelow THEN adjusted + 1 ELSE adjusted
    IN  [ls EXCEPT !.layers = InsertAt(rest, insertIndex, removed)]

----------------------------------------------------------------------------
(* Canvas 2D operations on one-row canvases.                               *)

\* The pixel of canvas c at (x, y); transparent outside the canvas.
PixelAt(c, x, y) ==
    IF y = 0 /\ x >= 0 /\ x < Len(c) THEN c[x + 1] ELSE "t"

\* The edge from a to b is crossed by the ray cast from (checkX, checkY):
\* checkX < (b.x - a.x) * (checkY - a.y) / (b.y - a.y) + a.x, with the
\* division cleared.
Crosses(a, b, checkX, checkY) ==
    /\ (a.y > checkY) # (b.y > checkY)
    /\ LET d == b.y - a.y
           n == (b.x - a.x) * (checkY - a.y)
       IN  IF d > 0 THEN (checkX - a.x) * d < n ELSE (checkX - a.x) * d > n

\* The even-odd test of isPointInSelection for the polygon path moved by
\* (offsetX, offsetY).
PointInPath(path, offsetX, offsetY, checkX, checkY) ==
    LET n == Len(path)
        at(i) == [x |-> path[i].x + offsetX, y |-> path[i].y + offsetY]
        hits == {i \in 1..n :
                    Crosses(at(i), at(IF i = 1 THEN n ELSE i - 1), checkX, checkY)}
    IN  Cardinality(hits) % 2 = 1

\* A closed path covers the pixels whose centre (x + 1/2, y + 1/2) lies in
\* it; the test runs on coordinates doubled.
Covers(path, x, y) ==
    PointInPath([i \in 1..Len(path) |-> [x |-> 2 * path[i].x, y |-> 2 * path[i].y]],
                0, 0, 2 * x + 1, 2 * y + 1)

\* ctx.drawImage(src, x, y) with 'source-over': the opaque pixels of src
\* replace those of dst, the transparent ones leave them.
DrawImage(dst, src, x, y) ==
    [k \in 1..Len(dst) |->
        LET s == PixelAt(src, (k - 1) - x, 0 - y)
        IN  IF s # "t" THEN s ELSE dst[k]]

ClipCaptureNothing(px, normalizedPath, minX, minY, width) ==
    [k \in 1..width |-> "t"]

\* beginPath .. closePath, clip, drawImage(layer canvas, -minX, -minY) on a
\* new canvas of the given width: the layer's pixels inside the path.
ClipCapture(px, normalizedPath, minX, minY, width) ==
    [k \in 1..width |->
        IF Covers(normalizedPath, k - 1, 0)
        THEN PixelAt(px, (k - 1) + minX, minY) ELSE "t"]

FillNothing(px, path) == px

\* fill() of the path with 'destination-out': the pixels inside the path
\* become transparent.
FillDestinationOut(px, path) ==
    [k \in 1..Len(px) |-> IF Covers(path, k - 1, 0) THEN "t" ELSE px[k]]

\* layers.js compositeLayers: the layers drawn bottom-up, the last of the
\* array first; every layer is visible and opaque.
RECURSIVE compositeFrom(_, _)
compositeFrom(lyrs, i) ==
    IF i > Len(lyrs) THEN Blank
    ELSE DrawImage(compositeFrom(lyrs, i + 1), lyrs[i].px, 0, 0)

compositeLayers(lyrs) == compositeFrom(lyrs, 1)

----------------------------------------------------------------------------
(* selection.js: the lasso selection.  sel is the selectionState object;   *)
(* each function returns the object after the call.  tempCanvas stands for *)
(* tempCanvas and tempCtx, which are set and cleared together.             *)

\* JavaScript null where a bounding box is expected.
NoBox == [x |-> 0, y |-> 0, width |-> 0, height |-> 0]

ClearedSelection ==
    [isDrawing |-> FALSE, isFloating |-> FALSE, path |-> <<>>,
     imageData |-> NoCanvas, boundingBox |-> NoBox,
     currentX |-> 0, currentY |-> 0, moveStartX |-> 0, moveStartY |-> 0,
     originLayerId |-> NoId, tempCanvas |-> NoCanvas,
     tempHistory |-> <<>>, tempRedoStack |-> <<>>]

clearSelectionKeeps(sel) == sel

clearSelection(sel) == ClearedSelection

addPointToSelection(sel, p) ==
    IF ~sel.isDrawing \/ sel.isFloating THEN sel
    ELSE [sel EXCEPT !.path = Append(@, p)]

saveSelectionStateNothing(sel) == sel

saveSelectionState(sel) ==
    IF Len(sel.tempCanvas) = 0 THEN sel
    ELSE LET stateToSave == [imageData |-> sel.tempCanvas,
                             x |-> sel.currentX, y |-> sel.currentY]
         IN  [sel EXCEPT !.tempHistory = Append(@, stateToSave),
                         !.tempRedoStack = <<>>]

MinOf(S) == CHOOSE m \in S : \A n \in S : m <= n

MaxOf(S) == CHOOSE m \in S : \A n \in S : m >= n

\* endSelection(originLayer): returns the selection and the content of the
\* origin layer's canvas.  Coordinates are integers, so Math.ceil is the
\* identity.
endSelection(sel, originLayer) ==
    IF Len(sel.path) < 3
    THEN [sel |-> clearSelection(sel), px |-> originLayer.px]
    ELSE LET xs == {sel.path[i].x : i \in 1..Len(sel.path)}
             ys == {sel.path[i].y : i \in 1..Len(sel.path)}
             minX == MinOf(xs)
             minY == MinOf(ys)
             width == MaxOf(xs) - minX
             height == MaxOf(ys) - minY
         IN  IF width <= 0 \/ height <= 0
             THEN [sel |-> clearSelection(sel), px |-> originLayer.px]
             ELSE LET normalizedPath ==
                          [i \in 1..Len(sel.path) |->
                              [x |-> sel.path[i].x - minX, y |-> sel.path[i].y - minY]]
                      imageData == ClipCapture(originLayer.px, normalizedPath,
                                               minX, minY, width)
                      lifted == [sel EXCEPT
                                   !.originLayerId = originLayer.id,
                                   !.boundingBox = [x |-> minX, y |-> minY,
                                                    width |-> width, height |-> height],
                                   !.imageData = imageData,
                                   !.tempCanvas = imageData,
                                   !.currentX = minX,
                                   !.currentY = minY,
                                   !.path = normalizedPath]
                  IN  [sel |-> [saveSelectionState(lifted) EXCEPT
                                   !.isDrawing = FALSE, !.isFloating = TRUE],
                       px |-> FillDestinationOut(originLayer.px, sel.path)]

deleteSelectionContentsNoSave(sel) ==
    IF ~sel.isFloating \/ Len(sel.tempCanvas) = 0 THEN sel
    ELSE [sel EXCEPT !.tempCanvas =
             [k \in 1..Len(sel.tempCanvas) |->
                 IF Covers(sel.path, k - 1, 0) THEN "t" ELSE sel.tempCanvas[k]]]

\* clearRect over the whole temp canvas under the lasso clip.
deleteSelectionContents(sel) ==
    IF ~sel.isFloating \/ Len(sel.tempCanvas) = 0 THEN sel
    ELSE saveSelectionState(
             [sel EXCEPT !.tempCanvas =
                 [k \in 1..Len(sel.tempCanvas) |->
                     IF Covers(sel.path, k - 1, 0) THEN "t" ELSE sel.tempCanvas[k]]])

startMove(sel, p) ==
    IF ~sel.isFloating THEN sel
    ELSE [sel EXCEPT !.moveStartX = p.x, !.moveStartY = p.y]

moveSelectionKeepsAnchor(sel, p) ==
    IF ~sel.isFloating THEN sel
    ELSE [sel EXCEPT !.currentX = @ + (p.x - sel.moveStartX),
                     !.currentY = @ + (p.y - sel.moveStartY)]

moveSelectionAndSave(sel, p) ==
    IF ~sel.isFloating THEN sel
    ELSE saveSelectionState(
             [sel EXCEPT !.currentX = @ + (p.x - sel.moveStartX),
                         !.currentY = @ + (p.y - sel.moveStartY),
                         !.moveStartX = p.x,
                         !.moveStartY = p.y])

moveSelection(sel, p) ==
    IF ~sel.isFloating THEN sel
    ELSE [sel EXCEPT !.currentX = @ + (p.x - sel.moveStartX),
                     !.currentY = @ + (p.y - sel.moveStartY),
                     !.moveStartX = p.x,
                     !.moveStartY = p.y]

\* drawOnSelection: the stroke from start to end, clipped to the lasso
\* path, covers the pixels under its two end points; the eraser
\* ('destination-out') leaves them transparent, the brush painted.
drawOnSelection(sel, start, end, tool) ==
    IF ~sel.isFloating \/ Len(sel.tempCanvas) = 0 THEN sel
    ELSE LET localStartX == start.x - sel.currentX
             localStartY == start.y - sel.currentY
             localEndX == end.x - sel.currentX
             localEndY == end.y - sel.currentY
             stroked(x, y) == \/ (x = localStartX /\ y = localStartY)
                              \/ (x = localEndX /\ y = localEndY)
         IN  [sel EXCEPT !.tempCanvas =
                 [k \in 1..Len(sel.tempCanvas) |->
                     IF Covers(sel.path, k - 1, 0) /\ stroked(k - 1, 0)
                     THEN (IF tool = "eraser" THEN "t" ELSE BrushColor)
                     ELSE sel.tempCanvas[k]]]

isPointInSelection(sel, p) ==
    /\ sel.isFloating
    /\ Len(sel.path) > 0
    /\ PointInPath(sel.path, sel.currentX, sel.currentY, p.x, p.y)

undoSelectionChangeDropsRedo(sel) ==
    IF Len(sel.tempHistory) < 2 THEN sel
    ELSE LET tempHistory == Front(sel.tempHistory)
             prevState == Last(tempHistory)
         IN  [sel EXCEPT !.tempHistory = tempHistory,
                         !.tempRedoStack = <<>>,
                         !.tempCanvas = prevState.imageData,
                         !.currentX = prevState.x,
                         !.currentY = prevState.y,
                         !.moveStartX = prevState.x]

undoSelectionChange(sel) ==
    IF Len(sel.tempHistory) < 2 THEN sel
    ELSE LET currentState == Last(sel.tempHistory)
             tempHistory == Front(sel.tempHistory)
             prevState == Last(tempHistory)
         IN  [sel EXCEPT !.tempHistory = tempHistory,
                         !.tempRedoStack = Append(@, currentState),
                         !.tempCanvas = prevState.imageData,
                         !.currentX = prevState.x,
                         !.currentY = prevState.y]

redoSelectionChangeKeepsPosition(sel) ==
    IF Len(sel.tempRedoStack) = 0 THEN sel
    ELSE LET nextState == Last(sel.tempRedoStack)
         IN  [sel EXCEPT !.tempRedoStack = Front(@),
                         !.tempHistory = Append(@, nextState),
                         !.tempCanvas = nextState.imageData]

redoSelectionChange(sel) ==
    IF Len(sel.tempRedoStack) = 0 THEN sel
    ELSE LET nextState == Last(sel.tempRedoStack)
         IN  [sel EXCEPT !.tempRedoStack = Front(@),
                         !.tempHistory = Append(@, nextState),
                         !.tempCanvas = nextState.imageData,
                         !.currentX = nextState.x,
                         !.currentY = nextState.y]

----------------------------------------------------------------------------
(* canvas.js floodFill and selection.js fillSelection.  An ImageData is    *)
(* the sequence of its pixels, row after row; a run of the fill is the     *)
(* record of its locals (data, width, height, queue, targetColor,          *)
(* fillColor, the clip path) together with the data it started from, its   *)
(* seed and counts of its work: steps, the iterations of the while loop,   *)
(* and for every pixel inside the surface the number of times it was set   *)
(* and the number of times it was pushed on the queue.                     *)

\* The channels r, g, b, a of the colours: "b" and "c" are within the
\* tolerance of each other in every channel, all other pairs are not.
Rgba(c) ==
    CASE c = "t" -> <<0, 0, 0, 0>>
      [] c = "a" -> <<200, 0, 0, 255>>
      [] c = "b" -> <<0, 0, 200, 255>>
      [] c = "c" -> <<20, 20, 220, 255>>

Abs(n) == IF n < 0 THEN 0 - n ELSE n

\* A read outside the array gives undefined channels, and every
\* comparison with NaN is false.
colorsMatch(c1, c2) ==
    /\ c1 # "undefined"
    /\ c2 # "undefined"
    /\ \A ch \in 1..4 : Abs(Rgba(c1)[ch] - Rgba(c2)[ch]) < threshold

getPixelColor(x, y, width, data) ==
    LET index == y * width + x
    IN  IF index >= 0 /\ index < Len(data) THEN data[index + 1] ELSE "undefined"

setPixelColorNothing(x, y, color, width, data) == data

setPixelColor(x, y, color, width, data) ==
    [data EXCEPT ![(y * width + x) + 1] = color]

\* q lies on the segment from a to b.
OnSegment(a, b, q) ==
    /\ (b.x - a.x) * (q.y - a.y) = (b.y - a.y) * (q.x - a.x)
    /\ q.x >= MinOf({a.x, b.x}) /\ q.x <= MaxOf({a.x, b.x})
    /\ q.y >= MinOf({a.y, b.y}) /\ q.y <= MaxOf({a.y, b.y})

\* A path with its coordinates doubled: lasso points need not lie on the
\* corners of the pixels, and a clip path is kept in half pixels.
Doubled(path) ==
    [i \in 1..Len(path) |-> [x |-> 2 * path[i].x, y |-> 2 * path[i].y]]

\* ctx.isPointInPath(x, y) for the current path clip, kept in half pixels:
\* the point is inside the polygon or on it.
isPointInPath(clip, x, y) ==
    /\ Len(clip) > 0
    /\ \/ PointInPath(clip, 0, 0, 2 * x, 2 * y)
       \/ \E i \in 1..Len(clip) :
             OnSegment(clip[i], clip[IF i = 1 THEN Len(clip) ELSE i - 1],
                       [x |-> 2 * x, y |-> 2 * y])

NoFill ==
    [phase |-> "idle", clipped |-> FALSE, clip |-> <<>>, data |-> <<>>,
     original |-> <<>>, width |-> 0, height |-> 0, queue |-> <<>>,
     targetColor |-> "t", fillColor |-> "t", seed |-> <<0, 0>>,
     set |-> <<>>, pushed |-> <<>>, steps |-> 0]

InSurface(f, pt) ==
    pt[1] >= 0 /\ pt[1] < f.width /\ pt[2] >= 0 /\ pt[2] < f.height

IndexOf(f, pt) == (pt[2] * f.width + pt[1]) + 1

\* queue.push(...pts)
RECURSIVE Enqueue(_, _)
Enqueue(f, pts) ==
    IF pts = <<>> THEN f
    ELSE LET pt == Head(pts)
             g == [f EXCEPT !.queue = Append(@, pt)]
         IN  Enqueue(IF InSurface(f, pt)
                     THEN [g EXCEPT !.pushed[IndexOf(f, pt)] = @ + 1] ELSE g,
                     Tail(pts))

\* The locals after getImageData, before the colour of the seed is read.
Locals(data, width, height, clipped, clip, startX, startY, fillColor) ==
    [phase |-> "running", clipped |-> clipped, clip |-> clip, data |-> data,
     original |-> data, width |-> width, height |-> height, queue |-> <<>>,
     targetColor |-> getPixelColor(startX, startY, width, data),
     fillColor |-> fillColor, seed |-> <<startX, startY>>,
     set |-> [i \in 1..Len(data) |-> 0],
     pushed |-> [i \in 1..Len(data) |-> 0], steps |-> 0]

\* floodFill up to the while loop: the queue holds the seed, or nothing
\* when the function returns early.
floodFillStart(data, width, height, startX, startY, fillColor) ==
    LET f == Locals(data, width, height, FALSE, <<>>, startX, startY, fillColor)
    IN  IF colorsMatch(f.targetColor, fillColor) THEN f
        ELSE Enqueue(f, <<f.seed>>)

\* fillSelection up to the while loop, on the temp canvas.
fillSelectionStart(data, width, height, clip, startX, startY, fillColor) ==
    LET f == Locals(data, width, height, TRUE, clip, startX, startY, fillColor)
    IN  IF ~isPointInPath(clip, startX, startY) THEN f
        ELSE IF startX < 0 \/ startX >= width \/ startY < 0 \/ startY >= height
        THEN f
        ELSE IF colorsMatch(f.targetColor, fillColor) THEN f
        ELSE Enqueue(f, <<f.seed>>)

Neighbours(x, y) == <<<<x + 1, y>>, <<x - 1, y>>, <<x, y + 1>>, <<x, y - 1>>>>

\* The pixel at (x, y) is set to fillColor and its neighbours are pushed.
Recolour(f, x, y) ==
    Enqueue([f EXCEPT !.data = setPixelColor(x, y, f.fillColor, f.width, @),
                      !.set[IndexOf(f, <<x, y>>)] = @ + 1],
            Neighbours(x, y))

floodFillStepDiagonal(f) ==
    LET x == Head(f.queue)[1]
        y == Head(f.queue)[2]
        g == [f EXCEPT !.queue = Tail(@), !.steps = @ + 1]
    IN  IF x < 0 \/ x >= f.width \/ y < 0 \/ y >= f.height THEN g
        ELSE IF colorsMatch(getPixelColor(x, y, f.width, g.data), f.targetColor)
        THEN Enqueue(Recolour(g, x, y), <<<<x + 1, y + 1>>, <<x - 1, y - 1>>>>)
        ELSE g

\* One iteration of the while loop of floodFill.
floodFillStep(f) ==
    LET x == Head(f.queue)[1]
        y == Head(f.queue)[2]
        g == [f EXCEPT !.queue = Tail(@), !.steps = @ + 1]
    IN  IF x < 0 \/ x >= f.width \/ y < 0 \/ y >= f.height THEN g
        ELSE IF colorsMatch(getPixelColor(x, y, f.width, g.data), f.targetColor)
        THEN Recolour(g, x, y)
        ELSE g

fillSelectionStepUnclipped(f) ==
    LET x == Head(f.queue)[1]
        y == Head(f.queue)[2]
        g == [f EXCEPT !.queue = Tail(@), !.steps = @ + 1]
    IN  IF x < 0 \/ x >= f.width \/ y < 0 \/ y >= f.height THEN g
        ELSE IF colorsMatch(getPixelColor(x, y, f.width, g.data), f.targetColor)
        THEN Recolour(g, x, y)
        ELSE g

\* One iteration of the while loop of fillSelection.
fillSelectionStep(f) ==
    LET x == Head(f.queue)[1]
        y == Head(f.queue)[2]
        g == [f EXCEPT !.queue = Tail(@), !.steps = @ + 1]
    IN  IF x < 0 \/ x >= f.width \/ y < 0 \/ y >= f.height THEN g
        ELSE IF ~isPointInPath(f.clip, x, y) THEN g
        ELSE IF colorsMatch(getPixelColor(x, y, f.width, g.data), f.targetColor)
        THEN Recolour(g, x, y)
        ELSE g

\* The while loop, run until the queue is empty.
RECURSIVE whileQueue(_)
whileQueue(f) ==
    IF f.queue = <<>> THEN f
    ELSE whileQueue(IF f.clipped THEN fillSelectionStep(f) ELSE floodFillStep(f))

\* floodFill(startX, startY, state) on a canvas one row high with content
\* px: the content putImageData leaves.
floodFill(px, startX, startY, fillColor) ==
    whileQueue(floodFillStart(px, Len(px), 1, startX, startY, fillColor)).data

\* fillSelection(canvasX, canvasY, fillColorHex), p the point clicked.
fillSelection(sel, p, fillColorHex) ==
    IF ~sel.isFloating \/ Len(sel.tempCanvas) = 0 THEN sel
    ELSE [sel EXCEPT !.tempCanvas =
             whileQueue(fillSelectionStart(@, Len(@), 1, Doubled(sel.path),
                                           p.x - sel.currentX, p.y - sel.currentY,
                                           fillColorHex)).data]

----------------------------------------------------------------------------
(* viewport.js.  A JavaScript number is an exact rational [n, d] in lowest *)
(* terms with d > 0: the rounding of floating-point arithmetic is left     *)
(* out.  vp is the record of the module's variables; each function         *)
(* returns the record after the call.                                      *)

RECURSIVE Gcd(_, _)
Gcd(a, b) == IF b = 0 THEN a ELSE Gcd(b, a % b)

Ratio(n, d) ==
    LET g == Gcd(Abs(n), Abs(d))
        sign == IF d < 0 THEN -1 ELSE 1
    IN  [n |-> sign * (n \div g), d |-> Abs(d) \div g]

Number(i) == [n |-> i, d |-> 1]

\* Sums over the least common denominator and products with the common
\* factors cancelled first, which keeps the intermediate integers small.
Plus(a, b) ==
    LET g == Gcd(a.d, b.d)
    IN  Ratio(a.n * (b.d \div g) + b.n * (a.d \div g), (a.d \div g) * b.d)

Minus(a, b) == Plus(a, [n |-> 0 - b.n, d |-> b.d])

Times(a, b) ==
    LET g1 == Gcd(Abs(a.n), b.d)
        g2 == Gcd(Abs(b.n), a.d)
    IN  Ratio((a.n \div g1) * (b.n \div g2), (a.d \div g2) * (b.d \div g1))

Over(a, b) ==
    Times(a, IF b.n < 0 THEN [n |-> 0 - b.d, d |-> 0 - b.n] ELSE [n |-> b.d, d |-> b.n])

Less(a, b) == Minus(a, b).n < 0

MathMax(a, b) == IF Less(a, b) THEN b ELSE a

MathMin(a, b) == IF Less(b, a) THEN b ELSE a

InitialViewport ==
    [zoom |-> Number(1), offsetX |-> Number(0), offsetY |-> Number(0),
     isPanning |-> FALSE, panStartX |-> 0, panStartY |-> 0]

\* applyTransform: setTransform(zoom, 0, 0, zoom, offsetX, offsetY) draws the
\* point m of the drawing at this pixel of the visible canvas.
applyTransform(vp, m) ==
    [x |-> Plus(Times(m.x, vp.zoom), vp.offsetX),
     y |-> Plus(Times(m.y, vp.zoom), vp.offsetY)]

getTransformedPointNoOffset(vp, x, y) ==
    [x |-> Over(Number(x), vp.zoom), y |-> Over(Number(y), vp.zoom)]

\* getTransformedPoint of viewport.js, which goes with resizeCanvases: the
\* visible canvas has one pixel per CSS pixel.
getTransformedPoint(vp, x, y) ==
    LET transformedX == Over(Minus(Number(x), vp.offsetX), vp.zoom)
        transformedY == Over(Minus(Number(y), vp.offsetY), vp.zoom)
    IN  [x |-> transformedX, y |-> transformedY]

\* resizeVisibleCanvas gives the visible canvas dpr pixels per CSS pixel:
\* the pixel of the canvas at the CSS position x.
CanvasPixel(x, dpr) == Times(Number(x), Number(dpr))

\* getTransformedPoint of the viewport module in old.js, which goes with
\* resizeVisibleCanvas; dpr is window.devicePixelRatio || 1.
getTransformedPointScaled(vp, x, y, dpr) ==
    LET scaledX == Times(Number(x), Number(dpr))
        scaledY == Times(Number(y), Number(dpr))
        invX == Over(Minus(scaledX, vp.offsetX), vp.zoom)
        invY == Over(Minus(scaledY, vp.offsetY), vp.zoom)
    IN  [x |-> invX, y |-> invY]

zoomOnWheelUnclamped(vp, mouseX, mouseY, deltaY) ==
    LET scaleAmount == Ratio(11, 10)
        worldX == Over(Minus(Number(mouseX), vp.offsetX), vp.zoom)
        worldY == Over(Minus(Number(mouseY), vp.offsetY), vp.zoom)
        zoom == IF deltaY < 0 THEN Times(vp.zoom, scaleAmount)
                ELSE Over(vp.zoom, scaleAmount)
    IN  [vp EXCEPT !.zoom = zoom,
                   !.offsetX = Minus(Number(mouseX), Times(worldX, zoom)),
                   !.offsetY = Minus(Number(mouseY), Times(worldY, zoom))]

zoomOnWheelStaleZoom(vp, mouseX, mouseY, deltaY) ==
    LET scaleAmount == Ratio(11, 10)
        worldX == Over(Minus(Number(mouseX), vp.offsetX), vp.zoom)
        worldY == Over(Minus(Number(mouseY), vp.offsetY), vp.zoom)
        scaled == IF deltaY < 0 THEN Times(vp.zoom, scaleAmount)
                  ELSE Over(vp.zoom, scaleAmount)
        zoom == MathMax(Ratio(1, 10), MathMin(scaled, Number(20)))
    IN  [vp EXCEPT !.zoom = zoom,
                   !.offsetX = Minus(Number(mouseX), Times(worldX, scaled)),
                   !.offsetY = Minus(Number(mouseY), Times(worldY, scaled))]

\* zoomOnWheel for a wheel event at (mouseX, mouseY) relative to the
\* canvas, with e.deltaY = deltaY.
zoomOnWheel(vp, mouseX, mouseY, deltaY) ==
    LET scaleAmount == Ratio(11, 10)
        worldX == Over(Minus(Number(mouseX), vp.offsetX), vp.zoom)
        worldY == Over(Minus(Number(mouseY), vp.offsetY), vp.zoom)
        scaled == IF deltaY < 0 THEN Times(vp.zoom, scaleAmount)
                  ELSE Over(vp.zoom, scaleAmount)
        zoom == MathMax(Ratio(1, 10), MathMin(scaled, Number(20)))
    IN  [vp EXCEPT !.zoom = zoom,
                   !.offsetX = Minus(Number(mouseX), Times(worldX, zoom)),
                   !.offsetY = Minus(Number(mouseY), Times(worldY, zoom))]

startPan(vp, clientX, clientY) ==
    [vp EXCEPT !.isPanning = TRUE, !.panStartX = clientX, !.panStartY = clientY]

stopPan(vp) == [vp EXCEPT !.isPanning = FALSE]

pan(vp, clientX, clientY) ==
    IF ~vp.isPanning THEN vp
    ELSE LET dx == clientX - vp.panStartX
             dy == clientY - vp.panStartY
         IN  [vp EXCEPT !.offsetX = Plus(@, Number(dx)),
                        !.offsetY = Plus(@, Number(dy)),
                        !.panStartX = clientX,
                        !.panStartY = clientY]

----------------------------------------------------------------------------
(* Observation: every handler appends one entry to log.                    *)
(*   op     the handler                                                    *)
(*   arg    the snapshot it was given (save, paint), the surface of the    *)
(*          gesture's layer before it ran (mouseup, mouseleave), or NULL   *)
(*   id     the id of the layer it addressed, or NoId                      *)
(*   top    the newest undo entry of the layer it addressed, before it ran *)
(*   len    the undo-stack length of that layer, before it ran             *)
(*   events the number of 'activelayerchanged' events it dispatched        *)
(*   sub    the length of the selection's sub-history, before it ran       *)
(*   grab   in a drag of the floating selection with the move tool: the    *)
(*          pointer position startMove was called with, and the position  *)
(*          of the selection at that moment                                *)

Entry(op, arg, id, events) ==
    [op |-> op, arg |-> arg, id |-> id,
     top |-> IF MapHas(historyByLayer, id) /\ Len(historyByLayer[id]) > 0
             THEN Last(historyByLayer[id]) ELSE NULL,
     len |-> getHistoryLength(HistoryStore, id),
     events |-> events,
     sub |-> Len(selection.tempHistory)]

\* The history manager's calls are observed three deep, the handlers of
\* ui.js one deep and without the state of the undo stack.
Logged(e) == log' = IF Len(log) < 3 THEN Append(log, e) ELSE Append(Tail(log), e)

NoGrab == [on |-> FALSE, x |-> 0, y |-> 0, currentX |-> 0, currentY |-> 0]

Grab(op) ==
    IF op = "mousedown"
    THEN IF activeTool = "move" /\ isPointInSelection(selection, lastPoint')
         THEN [on |-> TRUE, x |-> lastPoint'.x, y |-> lastPoint'.y,
               currentX |-> selection.currentX, currentY |-> selection.currentY]
         ELSE NoGrab
    ELSE IF op = "mousemove" /\ Len(log) > 0 THEN Last(log).grab
    ELSE NoGrab

Observed(e) ==
    log' = <<[op |-> e.op, arg |-> e.arg, id |-> e.id, events |-> e.events,
              sub |-> e.sub, grab |-> Grab(e.op)]>>

LastOp == IF Len(log) = 0 THEN NULL ELSE Last(log).op

----------------------------------------------------------------------------
(* The state main.js leaves behind: one blank layer, created at the        *)
(* current clock reading, active, with its baseline history entry; the     *)
(* brush selected and no selection.                                        *)

InitEditor ==
    /\ now = 1
    /\ layers = <<[id |-> 1, px |-> Blank]>>
    /\ activeLayerId = 1
    /\ historyByLayer = [k \in {1} |-> <<Blank>>]
    /\ redoStackByLayer = [k \in {1} |-> <<>>]
    /\ isInteracting = FALSE
    /\ interactionLayer = 0
    /\ isDrawing = FALSE
    /\ activeTool = "brush"
    /\ lastPoint = Origin
    /\ selection = ClearedSelection
    /\ fill = NoFill
    /\ used = 0
    /\ log = <<>>

Init ==
    /\ InitEditor
    /\ viewport = InitialViewport

----------------------------------------------------------------------------
(* The history manager driven directly: save, undo and redo calls on the   *)
(* history of the one layer, each for that layer's own canvas, with the    *)
(* canvas repainted between calls.                                         *)

TheLayer == layers[1]

SetPx(i, px) == [layers EXCEPT ![i].px = px]

Paint(v) ==
    /\ used < MaxEdits
    /\ v # TheLayer.px
    /\ layers' = SetPx(1, v)
    /\ used' = used + 1
    /\ Logged(Entry("paint", v, TheLayer.id, 0))
    /\ UNCHANGED <<viewport, fill, now, activeLayerId, historyByLayer, redoStackByLayer,
                   isInteracting, interactionLayer, isDrawing, activeTool,
                   lastPoint, selection>>

Save ==
    LET hs == saveState(HistoryStore, TheLayer.id, TheLayer.px) IN
    /\ historyByLayer' = hs.h
    /\ redoStackByLayer' = hs.r
    /\ Logged(Entry("save", TheLayer.px, TheLayer.id, 0))
    /\ UNCHANGED <<viewport, fill, now, layers, activeLayerId, isInteracting, interactionLayer,
                   isDrawing, activeTool, lastPoint, selection, used>>

Undo ==
    LET res == undo(HistoryStore, TheLayer.id, TheLayer.px) IN
    /\ historyByLayer' = res.h
    /\ redoStackByLayer' = res.r
    /\ layers' = SetPx(1, res.px)
    /\ Logged(Entry("undo", NULL, TheLayer.id, 0))
    /\ UNCHANGED <<viewport, fill, now, activeLayerId, isInteracting, interactionLayer,
                   isDrawing, activeTool, lastPoint, selection, used>>

Redo ==
    LET res == redo(HistoryStore, TheLayer.id, TheLayer.px) IN
    /\ historyByLayer' = res.h
    /\ redoStackByLayer' = res.r
    /\ layers' = SetPx(1, res.px)
    /\ Logged(Entry("redo", NULL, TheLayer.id, 0))
    /\ UNCHANGED <<viewport, fill, now, activeLayerId, isInteracting, interactionLayer,
                   isDrawing, activeTool, lastPoint, selection, used>>

NextHistory ==
    \/ \E v \in Surfaces : Paint(v)
    \/ Save
    \/ Undo
    \/ Redo

SpecHistory == Init /\ [][NextHistory]_vars

----------------------------------------------------------------------------
(* ui.js: the handlers.  The pointer is on the canvas from mousedown until *)
(* mouseup or mouseleave, so the buttons and the layer list are clicked    *)
(* only between gestures; keys are pressed at any time.  A handler that    *)
(* changes the Maps of history.js, the layers and the selection computes   *)
(* a record [h, r, layers, sel] of their values after it.                  *)

World ==
    [h |-> historyByLayer, r |-> redoStackByLayer,
     layers |-> layers, sel |-> selection]

Becomes(w) ==
    /\ historyByLayer' = w.h
    /\ redoStackByLayer' = w.r
    /\ layers' = w.layers
    /\ selection' = w.sel

\* onDrawEnd(targetLayer): i is the index of targetLayer, 0 for null.
onDrawEnd(hs, ls, i) ==
    LET layerToUpdate == IF i # 0 THEN i ELSE getActiveLayer(ls) IN
    IF layerToUpdate # 0
    THEN saveState(hs, ls.layers[layerToUpdate].id, ls.layers[layerToUpdate].px)
    ELSE hs

\* layers.js getLayerById, as ui.js uses it: the index of the layer with
\* that id, 0 for none.
getLayerById(ls, id) == FindIndex(ls.layers, id)

\* history.js getPenultimateState, as ui.js uses it: "the clean state of
\* the layer before the cut", the entry below the top of the undo stack, or
\* null.
getPenultimateState(hs, layerId) ==
    IF MapHas(hs.h, layerId) /\ Len(hs.h[layerId]) >= 2
    THEN hs.h[layerId][Len(hs.h[layerId]) - 1]
    ELSE NoCanvas

\* history.js replaceLastStateWithMultiple: pops the top of the undo stack
\* and pushes the given states in order.
replaceLastStateWithMultiple(hs, layerId, states) ==
    IF ~MapHas(hs.h, layerId) THEN hs
    ELSE [hs EXCEPT !.h[layerId] = Front(@) \o states]

\* drawImage(tempCanvas, currentX, currentY) on the origin layer,
\* onDrawEnd(originLayer), clearSelection().
pasteSelection(hs, ls, sel, originLayer) ==
    LET painted == [ls EXCEPT !.layers[originLayer].px =
                        DrawImage(@, sel.tempCanvas, sel.currentX, sel.currentY)]
        saved == onDrawEnd(hs, painted, originLayer)
    IN  [h |-> saved.h, r |-> saved.r, layers |-> painted.layers,
         sel |-> clearSelection(sel)]

commitSelectionFromBaseline(hs, ls, sel) ==
    LET originLayer == getLayerById(ls, sel.originLayerId)
        cleared == [h |-> hs.h, r |-> hs.r, layers |-> ls.layers,
                    sel |-> clearSelection(sel)]
    IN
    IF ~sel.isFloating THEN cleared
    ELSE IF originLayer = 0 THEN cleared
    ELSE IF Len(sel.tempHistory) <= 1
    THEN pasteSelection(hs, ls, sel, originLayer)
    ELSE LET layerBaseState == getPenultimateState(hs, ls.layers[originLayer].id) IN
         IF Len(layerBaseState) = 0
         THEN pasteSelection(hs, ls, sel, originLayer)
         ELSE LET newHistoryStates ==
                      [i \in 1..Len(sel.tempHistory) |->
                          LET selectionStep == sel.tempHistory[i]
                          IN  DrawImage(layerBaseState, selectionStep.imageData,
                                        selectionStep.x, selectionStep.y)]
                  replaced == replaceLastStateWithMultiple(
                                  hs, ls.layers[originLayer].id, newHistoryStates)
                  finalState == Last(newHistoryStates)
              IN  [h |-> replaced.h, r |-> replaced.r,
                   layers |-> [ls.layers EXCEPT ![originLayer].px = finalState],
                   sel |-> clearSelection(sel)]

commitSelection(hs, ls, sel) ==
    LET originLayer == getLayerById(ls, sel.originLayerId)
        cleared == [h |-> hs.h, r |-> hs.r, layers |-> ls.layers,
                    sel |-> clearSelection(sel)]
    IN
    IF ~sel.isFloating THEN cleared
    ELSE IF originLayer = 0 THEN cleared
    ELSE IF Len(sel.tempHistory) <= 1
    THEN pasteSelection(hs, ls, sel, originLayer)
    ELSE LET layerBaseState == getPenultimateState(hs, ls.layers[originLayer].id) IN
         IF Len(layerBaseState) = 0
         THEN pasteSelection(hs, ls, sel, originLayer)
         ELSE LET newHistoryStates ==
                      [i \in 1..(Len(sel.tempHistory) - 1) |->
                          LET selectionStep == sel.tempHistory[i + 1]
                          IN  DrawImage(layerBaseState, selectionStep.imageData,
                                        selectionStep.x, selectionStep.y)]
                  replaced == replaceLastStateWithMultiple(
                                  hs, ls.layers[originLayer].id, newHistoryStates)
                  finalState == Last(newHistoryStates)
              IN  [h |-> replaced.h, r |-> replaced.r,
                   layers |-> [ls.layers EXCEPT ![originLayer].px = finalState],
                   sel |-> clearSelection(sel)]

startSelectionDiscards(hs, ls, sel, p) ==
    [h |-> hs.h, r |-> hs.r, layers |-> ls.layers,
     sel |-> [clearSelection(sel) EXCEPT !.isDrawing = TRUE, !.path = <<p>>]]

\* selection.js startSelection(x, y, commitSelection).
startSelection(hs, ls, sel, p) ==
    LET w == IF sel.isFloating THEN commitSelection(hs, ls, sel)
             ELSE [h |-> hs.h, r |-> hs.r, layers |-> ls.layers, sel |-> sel]
    IN  [w EXCEPT !.sel = [clearSelection(w.sel) EXCEPT
                              !.isDrawing = TRUE, !.path = <<p>>]]

Tick ==
    /\ now < MaxClock
    /\ now' = now + 1
    /\ Observed(Entry("tick", NULL, NoId, 0))
    /\ UNCHANGED <<viewport, fill, layers, activeLayerId, historyByLayer, redoStackByLayer,
                   isInteracting, interactionLayer, isDrawing, activeTool,
                   lastPoint, selection, used>>

AddLayerBtnClick ==
    /\ ~isInteracting
    /\ Len(layers) < MaxLayers
    /\ LET ls == addNewLayer(LayerStore, now)
           newLayer == ls.layers[1]
           hs == initializeHistoryForLayer(HistoryStore, newLayer.id, newLayer.px)
       IN  /\ layers' = ls.layers
           /\ activeLayerId' = ls.activeLayerId
           /\ historyByLayer' = hs.h
           /\ redoStackByLayer' = hs.r
           /\ Observed(Entry("addLayerBtn", NULL, newLayer.id, ls.events))
    /\ UNCHANGED <<viewport, fill, now, isInteracting, interactionLayer, isDrawing, activeTool,
                   lastPoint, selection, used>>

\* confirmed is the answer to confirm('Are you sure ...').
DeleteLayerBtnClick(confirmed) ==
    /\ ~isInteracting
    /\ LET layerToDelete == getActiveLayer(LayerStore)
           doIt == layerToDelete # 0 /\ confirmed
           hs == IF doIt
                 THEN deleteHistoryForLayer(HistoryStore, layers[layerToDelete].id)
                 ELSE HistoryStore
           ls == IF doIt THEN deleteActiveLayer(LayerStore) ELSE LayerStore
       IN  /\ layers' = ls.layers
           /\ activeLayerId' = ls.activeLayerId
           /\ historyByLayer' = hs.h
           /\ redoStackByLayer' = hs.r
           /\ Observed(Entry(IF doIt THEN "deleteLayerBtn" ELSE "deleteLayerBtnCancelled",
                             NULL, activeLayerId, ls.events))
    /\ UNCHANGED <<viewport, fill, now, isInteracting, interactionLayer, isDrawing, activeTool,
                   lastPoint, selection, used>>

\* The click listener of the i-th item of the layer list.
LayerItemClick(i) ==
    /\ ~isInteracting
    /\ i \in 1..Len(layers)
    /\ LET ls == setActiveLayer(LayerStore, layers[i].id)
       IN  /\ activeLayerId' = ls.activeLayerId
           /\ Observed(Entry("layerItemClick", NULL, layers[i].id, ls.events))
    /\ UNCHANGED <<viewport, fill, now, layers, historyByLayer, redoStackByLayer,
                   isInteracting, interactionLayer, isDrawing, activeTool,
                   lastPoint, selection, used>>

\* The click listener of a tool button.
ToolButtonClick(tool) ==
    /\ ~isInteracting
    /\ Becomes(IF selection.isFloating
                  /\ tool \notin {"move", "eyedropper", "pan", "brush", "eraser", "fill"}
               THEN commitSelection(HistoryStore, LayerStore, selection)
               ELSE World)
    /\ activeTool' = tool
    /\ Observed(Entry("toolButton", NULL, selection.originLayerId, 0))
    /\ UNCHANGED <<viewport, fill, now, activeLayerId, isInteracting, interactionLayer,
                   isDrawing, lastPoint, used>>

\* The keydown listener of the document.
KeyDown(key) ==
    /\ Becomes(IF ~selection.isFloating THEN World
               ELSE IF key \in {"Escape", "Enter"}
               THEN commitSelection(HistoryStore, LayerStore, selection)
               ELSE IF key \in {"Delete", "Backspace"}
               THEN [World EXCEPT !.sel = deleteSelectionContents(selection)]
               ELSE World)
    /\ Observed(Entry("keydown", key, selection.originLayerId, 0))
    /\ UNCHANGED <<viewport, fill, now, activeLayerId, isInteracting, interactionLayer,
                   isDrawing, activeTool, lastPoint, used>>

UndoBtnClick ==
    /\ ~isInteracting
    /\ IF selection.isFloating /\ Len(selection.tempHistory) > 1
       THEN /\ selection' = undoSelectionChange(selection)
            /\ UNCHANGED <<historyByLayer, redoStackByLayer, layers>>
       ELSE LET layer == IF selection.isFloating
                         THEN getLayerById(LayerStore, selection.originLayerId)
                         ELSE getActiveLayer(LayerStore)
                res == IF layer # 0
                       THEN undo(HistoryStore, layers[layer].id, layers[layer].px)
                       ELSE [h |-> historyByLayer, r |-> redoStackByLayer, px |-> NULL]
            IN  /\ historyByLayer' = res.h
                /\ redoStackByLayer' = res.r
                /\ layers' = IF layer # 0 THEN SetPx(layer, res.px) ELSE layers
                /\ selection' = IF layer # 0 /\ selection.isFloating
                                THEN clearSelection(selection) ELSE selection
    /\ Observed(Entry("undoBtn", NULL,
                      IF selection.isFloating THEN selection.originLayerId
                      ELSE activeLayerId, 0))
    /\ UNCHANGED <<viewport, fill, now, activeLayerId, isInteracting, interactionLayer,
                   isDrawing, activeTool, lastPoint, used>>

RedoBtnClick ==
    /\ ~isInteracting
    /\ IF selection.isFloating /\ Len(selection.tempRedoStack) > 0
       THEN /\ selection' = redoSelectionChange(selection)
            /\ UNCHANGED <<historyByLayer, redoStackByLayer, layers>>
       ELSE LET activeLayer == getActiveLayer(LayerStore)
                res == IF ~selection.isFloating /\ activeLayer # 0
                       THEN redo(HistoryStore, layers[activeLayer].id, layers[activeLayer].px)
                       ELSE [h |-> historyByLayer, r |-> redoStackByLayer, px |-> NULL]
            IN  /\ historyByLayer' = res.h
                /\ redoStackByLayer' = res.r
                /\ layers' = IF ~selection.isFloating /\ activeLayer # 0
                             THEN SetPx(activeLayer, res.px) ELSE layers
                /\ UNCHANGED selection
    /\ Observed(Entry("redoBtn", NULL, activeLayerId, 0))
    /\ UNCHANGED <<viewport, fill, now, activeLayerId, isInteracting, interactionLayer,
                   isDrawing, activeTool, lastPoint, used>>

\* mousedown on the canvas at p.  With the brush or the eraser and no
\* floating selection, handleCanvasClick starts a stroke and draws its
\* first dot, which leaves the canvas of the active layer with content v;
\* with the fill tool it fills from p with the colour of the colour picker
\* and saves the layer.
CanvasMouseDown(v, p) ==
    /\ ~isInteracting
    /\ used' = used + 1
    /\ lastPoint' = p
    /\ LET layer == getActiveLayer(LayerStore)
           inSelection == isPointInSelection(selection, p)
           committed == commitSelection(HistoryStore, LayerStore, selection)
       IN  /\ interactionLayer' = layer
           /\ IF layer = 0 /\ ~selection.isFloating
              THEN /\ isInteracting' = FALSE
                   /\ UNCHANGED <<historyByLayer, redoStackByLayer, layers,
                                  selection, isDrawing>>
              ELSE /\ isInteracting' = ~(activeTool = "fill" /\ inSelection)
                   /\ IF activeTool = "lasso"
                      THEN /\ Becomes(IF selection.isFloating /\ ~inSelection
                                      THEN committed
                                      ELSE startSelection(HistoryStore, LayerStore,
                                                          selection, p))
                           /\ UNCHANGED isDrawing
                      ELSE IF activeTool = "move"
                      THEN /\ Becomes(IF ~selection.isFloating THEN World
                                      ELSE IF inSelection
                                      THEN [World EXCEPT !.sel = startMove(selection, p)]
                                      ELSE committed)
                           /\ UNCHANGED isDrawing
                      ELSE IF activeTool = "fill" /\ inSelection
                      THEN /\ selection' = saveSelectionState(
                                               fillSelection(selection, p, BrushColor))
                           /\ UNCHANGED <<historyByLayer, redoStackByLayer, layers,
                                          isDrawing>>
                      ELSE IF ~selection.isFloating /\ activeTool = "fill"
                      THEN /\ LET filled == [LayerStore EXCEPT !.layers[layer].px =
                                                floodFill(@, p.x, p.y, BrushColor)]
                                   hs == onDrawEnd(HistoryStore, filled, layer)
                               IN  /\ historyByLayer' = hs.h
                                   /\ redoStackByLayer' = hs.r
                                   /\ layers' = filled.layers
                           /\ isDrawing' = FALSE
                           /\ UNCHANGED selection
                      ELSE IF ~selection.isFloating
                      THEN /\ isDrawing' = TRUE
                           /\ layers' = SetPx(layer, v)
                           /\ UNCHANGED <<historyByLayer, redoStackByLayer, selection>>
                      ELSE /\ Becomes(IF inSelection THEN World ELSE committed)
                           /\ UNCHANGED isDrawing
    /\ Observed(Entry("mousedown",
                      IF activeTool \in {"lasso", "move", "fill"} \/ selection.isFloating
                      THEN NULL ELSE v,
                      activeLayerId, 0))
    /\ UNCHANGED <<viewport, fill, now, activeLayerId, activeTool>>

\* mousemove to p while the button is down: the lasso path grows, the
\* floating selection moves or is painted on, or draw extends the stroke
\* on the layer, leaving its canvas with content v.
CanvasMouseMove(v, p) ==
    /\ isInteracting
    /\ lastPoint' = p
    /\ IF activeTool = "lasso"
       THEN /\ selection' = addPointToSelection(selection, p)
            /\ UNCHANGED layers
       ELSE IF activeTool = "move"
       THEN /\ selection' = IF selection.isFloating
                            THEN moveSelection(selection, p) ELSE selection
            /\ UNCHANGED layers
       ELSE IF selection.isFloating
       THEN /\ selection' = IF \/ isPointInSelection(selection, p)
                               \/ isPointInSelection(selection, lastPoint)
                            THEN drawOnSelection(selection, lastPoint, p, activeTool)
                            ELSE selection
            /\ UNCHANGED layers
       ELSE /\ layers' = IF isDrawing /\ interactionLayer # 0
                         THEN SetPx(interactionLayer, v) ELSE layers
            /\ UNCHANGED selection
    /\ Observed(Entry("mousemove",
                      IF activeTool \in {"lasso", "move"} \/ selection.isFloating
                      THEN NULL ELSE v,
                      layers[interactionLayer].id, 0))
    /\ UNCHANGED <<viewport, fill, now, activeLayerId, historyByLayer, redoStackByLayer,
                   isInteracting, interactionLayer, isDrawing, activeTool, used>>

\* stopDrawing(() => onDrawEnd(interactionLayer))
stopDrawing(hs, ls, drawing, i) ==
    IF drawing THEN onDrawEnd(hs, ls, i) ELSE hs

finishLassoNoSave(hs, ls, sel, i) ==
    LET res == endSelection(sel, ls.layers[i])
    IN  [h |-> hs.h, r |-> hs.r,
         layers |-> [ls.layers EXCEPT ![i].px = res.px], sel |-> res.sel]

\* endSelection(interactionLayer); onDrawEnd(interactionLayer): the cut,
\* then the save of the layer with the hole.
finishLasso(hs, ls, sel, i) ==
    LET res == endSelection(sel, ls.layers[i])
        cut == [ls EXCEPT !.layers[i].px = res.px]
        saved == onDrawEnd(hs, cut, i)
    IN  [h |-> saved.h, r |-> saved.r, layers |-> cut.layers, sel |-> res.sel]

CanvasMouseUp ==
    /\ isInteracting
    /\ IF activeTool = "lasso" /\ selection.isDrawing
       THEN /\ Becomes(finishLasso(HistoryStore, LayerStore, selection,
                                   interactionLayer))
            /\ UNCHANGED isDrawing
       ELSE IF selection.isFloating /\ activeTool \in {"move", "brush", "eraser"}
       THEN /\ selection' = saveSelectionState(selection)
            /\ UNCHANGED <<historyByLayer, redoStackByLayer, layers, isDrawing>>
       ELSE IF activeTool \in {"brush", "eraser", "fill"} /\ ~selection.isFloating
       THEN /\ LET hs == stopDrawing(HistoryStore, LayerStore, isDrawing,
                                     interactionLayer)
               IN  /\ historyByLayer' = hs.h
                   /\ redoStackByLayer' = hs.r
            /\ isDrawing' = FALSE
            /\ UNCHANGED <<layers, selection>>
       ELSE UNCHANGED <<historyByLayer, redoStackByLayer, layers, selection,
                        isDrawing>>
    /\ isInteracting' = FALSE
    /\ interactionLayer' = 0
    /\ Observed(Entry("mouseup", layers[interactionLayer].px,
                      layers[interactionLayer].id, 0))
    /\ UNCHANGED <<viewport, fill, now, activeLayerId, activeTool, lastPoint, used>>

CanvasMouseLeave ==
    /\ isInteracting
    /\ LET w == IF activeTool = "lasso" /\ selection.isDrawing
                THEN finishLasso(HistoryStore, LayerStore, selection,
                                 interactionLayer)
                ELSE World
           hs == stopDrawing([h |-> w.h, r |-> w.r],
                             [LayerStore EXCEPT !.layers = w.layers],
                             isDrawing, interactionLayer)
       IN  Becomes([w EXCEPT !.h = hs.h, !.r = hs.r])
    /\ isDrawing' = FALSE
    /\ isInteracting' = FALSE
    /\ interactionLayer' = 0
    /\ Observed(Entry("mouseleave", layers[interactionLayer].px,
                      layers[interactionLayer].id, 0))
    /\ UNCHANGED <<viewport, fill, now, activeLayerId, activeTool, lastPoint, used>>

\* The runs with the brush and no selection, one layer stroke long: the
\* handlers do not read the pointer position there.
StrokeDown(v) == used < MaxStrokes /\ CanvasMouseDown(v, Origin)

StrokeMove(v) == CanvasMouseMove(v, Origin)

Next ==
    \/ Tick
    \/ AddLayerBtnClick
    \/ \E confirmed \in BOOLEAN : DeleteLayerBtnClick(confirmed)
    \/ \E i \in 1..MaxLayers : LayerItemClick(i)
    \/ UndoBtnClick
    \/ RedoBtnClick
    \/ \E v \in Surfaces : StrokeDown(v)
    \/ \E v \in Surfaces : StrokeMove(v)
    \/ CanvasMouseUp
    \/ CanvasMouseLeave

Spec == Init /\ [][Next]_vars

\* The runs in which no two layers are created at the same clock reading:
\* addLayerBtn is clicked only when Date.now() differs from every id in use.
AddLayerBtnClickFresh ==
    /\ \A i \in 1..Len(layers) : layers[i].id # now
    /\ AddLayerBtnClick

NextFreshIds ==
    \/ Tick
    \/ AddLayerBtnClickFresh
    \/ \E confirmed \in BOOLEAN : DeleteLayerBtnClick(confirmed)
    \/ \E i \in 1..MaxLayers : LayerItemClick(i)
    \/ UndoBtnClick
    \/ RedoBtnClick
    \/ \E v \in Surfaces : StrokeDown(v)
    \/ \E v \in Surfaces : StrokeMove(v)
    \/ CanvasMouseUp
    \/ CanvasMouseLeave

SpecFreshIds == Init /\ [][NextFreshIds]_vars

\* The drop listener of the target-th item of the layer list, for a drag
\* that started on the src-th item.  renderLayerList makes one item per
\* layer, in the order of layers.
LayerItemDrop(src, target, dropBelow) ==
    /\ ~isInteracting
    /\ src \in 1..Len(layers)
    /\ target \in 1..Len(layers)
    /\ LET ls == IF src # target
                 THEN handleDrop(LayerStore, layers[src].id, layers[target].id,
                                 dropBelow)
                 ELSE LayerStore
       IN  /\ layers' = ls.layers
           /\ activeLayerId' = ls.activeLayerId
    /\ Observed(Entry("drop",
                      [src |-> src, target |-> target, dropBelow |-> dropBelow],
                      layers[src].id, 0))
    /\ UNCHANGED <<viewport, fill, now, historyByLayer, redoStackByLayer, isInteracting,
                   interactionLayer, isDrawing, activeTool, lastPoint, selection,
                   used>>

\* The runs of Spec with the layer list reordered by drag and drop.
NextLayers ==
    \/ Tick
    \/ AddLayerBtnClick
    \/ \E confirmed \in BOOLEAN : DeleteLayerBtnClick(confirmed)
    \/ \E i \in 1..MaxLayers : LayerItemClick(i)
    \/ UndoBtnClick
    \/ RedoBtnClick
    \/ \E v \in Surfaces : StrokeDown(v)
    \/ \E v \in Surfaces : StrokeMove(v)
    \/ CanvasMouseUp
    \/ CanvasMouseLeave
    \/ \E src, target \in 1..MaxLayers, dropBelow \in BOOLEAN :
          LayerItemDrop(src, target, dropBelow)

SpecLayers == Init /\ [][NextLayers]_vars

\* The same runs without two layers created at one clock reading.
NextLayersFreshIds ==
    \/ Tick
    \/ AddLayerBtnClickFresh
    \/ \E confirmed \in BOOLEAN : DeleteLayerBtnClick(confirmed)
    \/ \E i \in 1..MaxLayers : LayerItemClick(i)
    \/ UndoBtnClick
    \/ RedoBtnClick
    \/ \E v \in Surfaces : StrokeDown(v)
    \/ \E v \in Surfaces : StrokeMove(v)
    \/ CanvasMouseUp
    \/ CanvasMouseLeave
    \/ \E src, target \in 1..MaxLayers, dropBelow \in BOOLEAN :
          LayerItemDrop(src, target, dropBelow)

SpecLayersFreshIds == Init /\ [][NextLayersFreshIds]_vars

\* The runs of the selection handlers on the layer main.js creates: tool
\* buttons, pointer gestures at every position, keys (also while a lasso
\* path is being drawn), undo and redo, and the delete-layer button.
\* A stroke on the layer reads v and not the pointer position; every other
\* gesture reads the pointer position and not v.
Reads(v, p) ==
    IF activeTool = "brush" /\ ~selection.isFloating THEN p = Origin ELSE v = Blank

GestureDown(v, p) ==
    /\ used < MaxGestures
    /\ Reads(v, p)
    /\ CanvasMouseDown(v, p)

GestureMove(v, p) ==
    /\ selection.isDrawing => Len(selection.path) < MaxPath
    /\ Reads(v, p)
    /\ CanvasMouseMove(v, p)

EditKeyDown(key) ==
    /\ ~isInteracting \/ selection.isDrawing
    /\ Len(selection.tempHistory) < MaxSubHistory
    /\ KeyDown(key)

NextSelection ==
    \/ \E tool \in Tools : ToolButtonClick(tool)
    \/ \E key \in {"Enter", "Delete"} : EditKeyDown(key)
    \/ \E v \in Surfaces, p \in Points : GestureDown(v, p)
    \/ \E v \in Surfaces, p \in Points : GestureMove(v, p)
    \/ CanvasMouseUp
    \/ CanvasMouseLeave
    \/ UndoBtnClick
    \/ RedoBtnClick
    \/ \E confirmed \in BOOLEAN : DeleteLayerBtnClick(confirmed)

SpecSelection == Init /\ [][NextSelection]_vars

\* The runs with the fill tool: strokes and fills on the layer, a lasso
\* selection and fills inside it.
FillTools == {"lasso", "fill"}

NextFill ==
    \/ \E tool \in FillTools : ToolButtonClick(tool)
    \/ \E v \in Surfaces, p \in Points : GestureDown(v, p)
    \/ \E v \in Surfaces, p \in Points : GestureMove(v, p)
    \/ CanvasMouseUp

SpecFill == Init /\ [][NextFill]_vars

\* Flood fill run by itself, once, one iteration of its loop at a time:
\* floodFill on every surface of FillWidth by FillHeight pixels in the
\* colours of FillPalette, fillSelection on the same surfaces under every
\* clip path of ClipPaths, from every seed and with every fill colour.
FillPalette == {"a", "b", "c"}

FillColors == {"a", "c"}

FillSurfaces == [1..(FillWidth * FillHeight) -> FillPalette]

Seeds == (0..(FillWidth - 1)) \X (0..(FillHeight - 1))

\* Normalized lasso paths in half pixels: a triangle, a square and an L
\* with its concave corner at (1/2, 1/2).
ClipPaths ==
    {<<[x |-> 0, y |-> 0], [x |-> 3, y |-> 0], [x |-> 0, y |-> 3]>>,
     <<[x |-> 0, y |-> 0], [x |-> 3, y |-> 0], [x |-> 3, y |-> 3],
       [x |-> 0, y |-> 3]>>,
     <<[x |-> 0, y |-> 0], [x |-> 3, y |-> 0], [x |-> 3, y |-> 1],
       [x |-> 1, y |-> 1], [x |-> 1, y |-> 3], [x |-> 0, y |-> 3]>>}

FrameOfFill ==
    UNCHANGED <<viewport, now, layers, activeLayerId, historyByLayer, redoStackByLayer,
                isInteracting, interactionLayer, isDrawing, activeTool,
                lastPoint, selection, used>>

FloodFillCall(data, seed, fillColor) ==
    /\ fill.phase = "idle"
    /\ fill' = floodFillStart(data, FillWidth, FillHeight, seed[1], seed[2],
                              fillColor)
    /\ Observed(Entry("floodFill", NULL, NoId, 0))
    /\ FrameOfFill

FillSelectionCall(data, clip, seed, fillColor) ==
    /\ fill.phase = "idle"
    /\ fill' = fillSelectionStart(data, FillWidth, FillHeight, clip,
                                  seed[1], seed[2], fillColor)
    /\ Observed(Entry("fillSelection", NULL, NoId, 0))
    /\ FrameOfFill

\* while (queue.length > 0): one iteration.
FillIterate ==
    /\ fill.phase = "running"
    /\ fill.queue # <<>>
    /\ fill' = IF fill.clipped THEN fillSelectionStep(fill) ELSE floodFillStep(fill)
    /\ Observed(Entry("while", NULL, NoId, 0))
    /\ FrameOfFill

\* The early return, or putImageData after the loop.
FillReturn ==
    /\ fill.phase = "running"
    /\ fill.queue = <<>>
    /\ fill' = [fill EXCEPT !.phase = "returned"]
    /\ Observed(Entry("return", NULL, NoId, 0))
    /\ FrameOfFill

NextFloodFill ==
    \/ \E data \in FillSurfaces, seed \in Seeds, fillColor \in FillColors :
          FloodFillCall(data, seed, fillColor)
    \/ \E data \in FillSurfaces, clip \in ClipPaths, seed \in Seeds,
          fillColor \in FillColors :
          FillSelectionCall(data, clip, seed, fillColor)
    \/ FillIterate
    \/ FillReturn

SpecFloodFill == Init /\ [][NextFloodFill]_vars

\* The runs that take one sub-history deep: one lasso gesture, and then
\* the Delete key, undo and redo on the floating selection.
LassoDown(p) ==
    /\ used = 0
    /\ activeTool = "lasso"
    /\ CanvasMouseDown(Blank, p)

DeepKeyDown ==
    /\ ~isInteracting
    /\ Len(selection.tempHistory) < MaxDeepSubHistory
    /\ KeyDown("Delete")

NextSubHistory ==
    \/ ToolButtonClick("lasso")
    \/ \E p \in Points : LassoDown(p)
    \/ \E p \in Points : GestureMove(Blank, p)
    \/ CanvasMouseUp
    \/ DeepKeyDown
    \/ UndoBtnClick
    \/ RedoBtnClick

SpecSubHistory == Init /\ [][NextSubHistory]_vars

\* The wheel listener of the canvas, for a wheel event at p; the canvas
\* is at the top left of the window, so that client coordinates are
\* coordinates relative to the canvas.
WheelEvent(p, deltaY) ==
    /\ used < MaxViewportEvents
    /\ used' = used + 1
    /\ viewport' = zoomOnWheel(viewport, p.x, p.y, deltaY)
    /\ Observed(Entry("wheel", [p |-> p, deltaY |-> deltaY, zoom |-> viewport.zoom],
                      NoId, 0))
    /\ UNCHANGED <<fill, now, layers, activeLayerId, historyByLayer,
                   redoStackByLayer, isInteracting, interactionLayer, isDrawing,
                   activeTool, lastPoint, selection>>

\* The mouse listeners of the canvas with the pan tool.
PanMouseDown(p) ==
    /\ ~isInteracting
    /\ activeTool = "pan"
    /\ used < MaxViewportEvents
    /\ used' = used + 1
    /\ isInteracting' = TRUE
    /\ interactionLayer' = getActiveLayer(LayerStore)
    /\ lastPoint' = p
    /\ viewport' = startPan(viewport, p.x, p.y)
    /\ Observed(Entry("panMouseDown", p, activeLayerId, 0))
    /\ UNCHANGED <<fill, now, layers, activeLayerId, historyByLayer,
                   redoStackByLayer, isDrawing, activeTool, selection>>

PanMouseMove(p) ==
    /\ isInteracting
    /\ activeTool = "pan"
    /\ viewport' = pan(viewport, p.x, p.y)
    /\ Observed(Entry("panMouseMove", p, activeLayerId, 0))
    /\ UNCHANGED <<fill, now, layers, activeLayerId, historyByLayer,
                   redoStackByLayer, isInteracting, interactionLayer, isDrawing,
                   activeTool, lastPoint, selection, used>>

PanMouseUp ==
    /\ isInteracting
    /\ activeTool = "pan"
    /\ viewport' = stopPan(viewport)
    /\ isInteracting' = FALSE
    /\ interactionLayer' = 0
    /\ Observed(Entry("panMouseUp", NULL, activeLayerId, 0))
    /\ UNCHANGED <<fill, now, layers, activeLayerId, historyByLayer,
                   redoStackByLayer, isDrawing, activeTool, lastPoint, selection,
                   used>>

\* mouseleave with the pan tool: no lasso to finalize, stopDrawing with no
\* stroke in progress; stopPan is not called.
PanMouseLeave ==
    /\ isInteracting
    /\ activeTool = "pan"
    /\ LET hs == stopDrawing(HistoryStore, LayerStore, isDrawing, interactionLayer)
       IN  /\ historyByLayer' = hs.h
           /\ redoStackByLayer' = hs.r
    /\ isDrawing' = FALSE
    /\ isInteracting' = FALSE
    /\ interactionLayer' = 0
    /\ Observed(Entry("panMouseLeave", NULL, activeLayerId, 0))
    /\ UNCHANGED <<viewport, fill, now, layers, activeLayerId, activeTool,
                   lastPoint, selection, used>>

\* The runs of the viewport: wheel events and drags with the pan tool, on
\* the view as main.js leaves it and on the views that wheel events at the
\* canvas origin leave at either limit of the zoom (the offsets stay 0
\* there, and the clamp yields the limit itself).
WheelDeltas == {-1, 1}

StartViewports ==
    {[InitialViewport EXCEPT !.zoom = z] : z \in {Number(1), Ratio(1, 10), Number(20)}}

InitViewport ==
    /\ InitEditor
    /\ viewport \in StartViewports

NextViewport ==
    \/ \E tool \in {"pan", "brush"} : ToolButtonClick(tool)
    \/ \E p \in Points, deltaY \in WheelDeltas : WheelEvent(p, deltaY)
    \/ \E p \in Points : PanMouseDown(p)
    \/ \E p \in Points : PanMouseMove(p)
    \/ PanMouseUp
    \/ PanMouseLeave

SpecViewport == InitViewport /\ [][NextViewport]_vars

----------------------------------------------------------------------------
(* Properties *)

\* The undo (redo) stack of a layer id as a sequence of at most one stack,
\* empty when the id has no history.
UndoStackOf(id) == IF MapHas(historyByLayer, id) THEN <<historyByLayer[id]>> ELSE <<>>

RedoStackOf(id) == IF MapHas(redoStackByLayer, id) THEN <<redoStackByLayer[id]>> ELSE <<>>

LogOps == [i \in 1..Len(log) |-> log[i].op]

\* C1: after any sequence of save, undo and redo calls on an initialized
\* layer history the undo stack holds at most 30 entries.
C1_UndoStackAtMostLimit ==
    \A id \in DOMAIN historyByLayer : Len(historyByLayer[id]) <= HISTORY_LIMIT

\* C2: an initialized undo stack never becomes empty, and undo on a stack
\* of length <= 1 leaves the undo stack, the redo stack and the layer
\* surface unchanged.
C2_UndoStackNeverEmpty ==
    /\ [](\A id \in DOMAIN historyByLayer : Len(historyByLayer[id]) >= 1)
    /\ [][(Last(log').op = "undo" /\ Len(historyByLayer[TheLayer.id]) <= 1)
            => UNCHANGED <<historyByLayer, redoStackByLayer, layers>>]_vars

\* An undo was called on a stack holding only its baseline entry.
C2_Witness ==
    /\ LastOp = "undo"
    /\ Last(log).len = 1

\* C3: with S1 on top of the undo stack, save(S2) followed by undo applies
\* S1 to the layer surface, and a redo right after that undo applies S2 and
\* puts it back on top of the undo stack.
C3_UndoRedoInverse ==
    /\ (Len(log) >= 2 /\ log[Len(log) - 1].op = "save" /\ Last(log).op = "undo")
         => /\ TheLayer.px = log[Len(log) - 1].top
            /\ Last(historyByLayer[TheLayer.id]) = log[Len(log) - 1].top
    /\ LogOps = <<"save", "undo", "redo">>
         => /\ TheLayer.px = log[1].arg
            /\ Last(historyByLayer[TheLayer.id]) = log[1].arg

\* save(S2), undo, redo ran in that order with S2 different from S1.
C3_Witness ==
    /\ LogOps = <<"save", "undo", "redo">>
    /\ log[1].top # log[1].arg

\* C4: a save after undos empties the redo stack, so a following redo
\* changes neither stack nor the layer surface.
C4_SaveInvalidatesRedo ==
    /\ [](LastOp = "save" => redoStackByLayer[TheLayer.id] = <<>>)
    /\ [][(Last(log').op = "redo" /\ LastOp = "save")
            => UNCHANGED <<historyByLayer, redoStackByLayer, layers>>]_vars

\* An undo that popped an entry, then a save, then a redo.
C4_Witness ==
    /\ LogOps = <<"undo", "save", "redo">>
    /\ log[1].len > 1

\* The layer a history-changing handler of ui.js acts on.
ActingLayer ==
    IF isInteracting THEN interactionLayer ELSE getActiveLayer(LayerStore)

\* C5: save, undo or redo on one layer leaves the undo stack, the redo
\* stack and the surface of every other layer unchanged.
C5_HistoryIndependentPerLayer ==
    [][Last(log').op \in {"undoBtn", "redoBtn", "mouseup", "mouseleave"}
         => \A j \in 1..Len(layers) :
               j # ActingLayer
                 => /\ layers'[j] = layers[j]
                    /\ UndoStackOf(layers[j].id)' = UndoStackOf(layers[j].id)
                    /\ RedoStackOf(layers[j].id)' = RedoStackOf(layers[j].id)]_vars

\* C6: an attempt to delete the only remaining layer changes neither the
\* layer stack, nor the active layer, nor that layer's undo and redo stacks.
C6_DeleteLastLayerMutatesNothing ==
    [][(Last(log').op = "deleteLayerBtn" /\ Len(layers) = 1)
         => UNCHANGED <<layers, activeLayerId, historyByLayer, redoStackByLayer>>]_vars

\* C7: after the layer at index i was deleted, the active layer is the
\* layer now at index i, or the one at i-1 when the deleted layer was last.
C7_DeleteSelectsSameIndex ==
    [][(Last(log').op = "deleteLayerBtn" /\ Len(layers') < Len(layers))
         => LET i == getActiveLayer(LayerStore) IN
            activeLayerId' = IF i <= Len(layers') THEN layers'[i].id
                             ELSE layers'[i - 1].id]_vars

\* C8: addLayer puts the new layer at the top, makes it active, keeps the
\* order of the existing layers, and its history starts with one baseline
\* entry and an empty redo stack.
C8_AddLayerOnTop ==
    [][Last(log').op = "addLayerBtn"
         => /\ Tail(layers') = layers
            /\ activeLayerId' = layers'[1].id
            /\ getActiveLayer(LayerStore)' = 1
            /\ MapHas(historyByLayer', layers'[1].id)
            /\ historyByLayer'[layers'[1].id] = <<layers'[1].px>>
            /\ MapHas(redoStackByLayer', layers'[1].id)
            /\ redoStackByLayer'[layers'[1].id] = <<>>]_vars

\* A layer was added on top of existing layers whose active layer was not
\* the top one.
C8_Witness ==
    /\ LastOp = "addLayerBtn"
    /\ Len(layers) >= 3

\* C9: the layers alive at the same time have pairwise distinct ids.
C9_DistinctIds ==
    \A i, j \in 1..Len(layers) : i # j => layers[i].id # layers[j].id

\* C10: setActive on the active id changes nothing and notifies nobody;
\* otherwise it switches the active layer, and every handler dispatches
\* 'activelayerchanged' exactly once per change of the active layer.
C10_SetActiveNotifiesOncePerChange ==
    [][/\ Last(log').events = (IF activeLayerId' # activeLayerId THEN 1 ELSE 0)
       /\ Last(log').op = "layerItemClick"
            => /\ activeLayerId' = Last(log').id
               /\ Last(log').id = activeLayerId
                    => UNCHANGED <<layers, activeLayerId, historyByLayer,
                                   redoStackByLayer>>]_vars

\* A click in the layer list switched the active layer.
C10_Witness ==
    /\ LastOp = "layerItemClick"
    /\ Last(log).events = 1

\* C11: a second initialize for a layer id that already has a history (the
\* add-layer button at a clock reading that is the id of a live layer)
\* leaves that id's undo and redo stacks as they were.
C11_InitializeTwiceKeepsStacks ==
    [][(Last(log').op = "addLayerBtn" /\ MapHas(historyByLayer, now))
         => /\ UndoStackOf(now)' = UndoStackOf(now)
            /\ RedoStackOf(now)' = RedoStackOf(now)]_vars

\* C12: save, undo and redo for a layer id without a history change neither
\* Map nor any surface, and the length queries for that id return 0.
C12_NoHistoryNoOp ==
    [][(/\ Last(log').op \in {"undoBtn", "redoBtn", "mouseup", "mouseleave"}
        /\ ActingLayer # 0
        /\ ~MapHas(historyByLayer, layers[ActingLayer].id))
         => /\ UNCHANGED <<historyByLayer, redoStackByLayer, layers>>
            /\ getHistoryLength(HistoryStore, layers[ActingLayer].id) = 0
            /\ getRedoStackLength(HistoryStore, layers[ActingLayer].id) = 0]_vars

\* A stroke ended, or undo or redo was clicked, on a layer whose history
\* had been deleted.
C12_Witness ==
    /\ LastOp \in {"undoBtn", "redoBtn", "mouseup", "mouseleave"}
    /\ Last(log).id # NoId
    /\ ~MapHas(historyByLayer, Last(log).id)

----------------------------------------------------------------------------
(* Properties of the selection handlers *)

\* The origin layer of the selection: its index in layers, 0 for none.
OriginLayer == getLayerById(LayerStore, selection.originLayerId)

\* A handler committed the floating selection in this step.
CommitStep ==
    /\ selection.isFloating
    /\ ~selection'.isFloating
    /\ Last(log').op \in {"keydown", "toolButton", "mousedown"}

C14_MergeReconstructsFromHole ==
    [][(/\ CommitStep
        /\ Len(selection.tempHistory) > 1
        /\ OriginLayer # 0
        /\ MapHas(historyByLayer, selection.originLayerId))
         => LET before == historyByLayer[selection.originLayerId]
                after == historyByLayer'[selection.originLayerId]
                hole == Last(before)
                N == Len(selection.tempHistory) - 1
                step(i) == selection.tempHistory[i + 1]
                rebuilt(i) == DrawImage(hole, step(i).imageData, step(i).x, step(i).y)
            IN  /\ \A i \in 1..N : after[(Len(before) - 1) + i] = rebuilt(i)
                /\ layers'[OriginLayer].px = rebuilt(N)]_vars

C16_CommitReplacesHole ==
    [][(CommitStep /\ MapHas(historyByLayer, selection.originLayerId))
         => LET before == historyByLayer[selection.originLayerId]
                after == historyByLayer'[selection.originLayerId]
                N == Len(selection.tempHistory) - 1
            IN  /\ Len(after) = (Len(before) - 1) + Max(N, 1)
                /\ SubSeq(after, 1, Len(before) - 1) = Front(before)]_vars

\* The lasso gesture ends in this step: endSelection runs.
FinalizeStep ==
    /\ Last(log').op \in {"mouseup", "mouseleave"}
    /\ activeTool = "lasso"
    /\ selection.isDrawing

PathWidth(path) ==
    MaxOf({path[i].x : i \in 1..Len(path)}) - MinOf({path[i].x : i \in 1..Len(path)})

PathHeight(path) ==
    MaxOf({path[i].y : i \in 1..Len(path)}) - MinOf({path[i].y : i \in 1..Len(path)})

\* Fewer than 3 points, or a bounding box without width or height.
Degenerate(path) ==
    Len(path) < 3 \/ PathWidth(path) <= 0 \/ PathHeight(path) <= 0

C18_DegenerateLassoChangesNothing ==
    [][(FinalizeStep /\ Degenerate(selection.path))
         => /\ selection' = ClearedSelection
            /\ UNCHANGED <<layers, historyByLayer, redoStackByLayer>>]_vars

C21_LayerUndoClearsSelection ==
    [][(/\ Last(log').op = "undoBtn"
        /\ selection.isFloating
        /\ Len(selection.tempHistory) <= 1
        /\ OriginLayer # 0)
         => /\ selection' = ClearedSelection
            /\ MapHas(historyByLayer, selection.originLayerId)
                 => LET id == selection.originLayerId
                    IN  /\ Len(historyByLayer[id]) >= 2
                        /\ historyByLayer'[id] = Front(historyByLayer[id])
                        /\ redoStackByLayer'[id]
                             = Append(redoStackByLayer[id], Last(historyByLayer[id]))
                        /\ layers'[OriginLayer].px = Last(historyByLayer'[id])]_vars

\* The undo button undid the cut of a floating selection.
C21_Witness ==
    /\ LastOp = "undoBtn"
    /\ Last(log).sub = 1
    /\ ~selection.isFloating
    /\ MapHas(redoStackByLayer, Last(log).id)
    /\ Len(redoStackByLayer[Last(log).id]) > 0

\* C22: whenever a selection floats, its origin layer is in the layer
\* stack and has a history.
C22_FloatingHasLiveOrigin ==
    selection.isFloating
      => /\ OriginLayer # 0
         /\ MapHas(historyByLayer, selection.originLayerId)

\* C24: an undo in the sub-history puts the pixels and the position of
\* the entry below the top on the floating selection, a redo right after
\* it those of the undone entry, which is on top of the sub-history again;
\* neither touches the layers or their histories.
C24_SubHistoryUndoRedo ==
    [][/\ (/\ Last(log').op = "undoBtn"
           /\ selection.isFloating
           /\ Len(selection.tempHistory) > 1)
            => LET prev == selection.tempHistory[Len(selection.tempHistory) - 1]
               IN  /\ selection'.tempCanvas = prev.imageData
                   /\ selection'.currentX = prev.x
                   /\ selection'.currentY = prev.y
                   /\ UNCHANGED <<layers, historyByLayer, redoStackByLayer>>
       /\ (/\ Last(log').op = "redoBtn"
           /\ LastOp = "undoBtn"
           /\ Last(log).sub > 1
           /\ selection.isFloating)
            => LET undone == Last(selection.tempRedoStack)
               IN  /\ selection'.tempCanvas = undone.imageData
                   /\ selection'.currentX = undone.x
                   /\ selection'.currentY = undone.y
                   /\ selection'.tempHistory = Append(selection.tempHistory, undone)
                   /\ UNCHANGED <<layers, historyByLayer, redoStackByLayer>>]_vars

\* A redo in the sub-history, after two undos, brought back an entry that
\* differs from the one below it.
C24_Witness ==
    /\ LastOp = "redoBtn"
    /\ selection.isFloating
    /\ Len(selection.tempRedoStack) >= 1
    /\ Len(selection.tempHistory) >= 2
    /\ Last(selection.tempHistory) # selection.tempHistory[Len(selection.tempHistory) - 1]

\* C25: a pointer move with the move tool shifts the floating selection by
\* the distance from the last pointer position and changes nothing else of
\* it but that recorded pointer position; the layers and their histories
\* are unchanged, and without a floating selection nothing changes.
C25_MoveChangesOnlyPosition ==
    [][(Last(log').op = "mousemove" /\ activeTool = "move")
         => /\ UNCHANGED <<layers, historyByLayer, redoStackByLayer>>
            /\ IF selection.isFloating
               THEN /\ selection' = [selection EXCEPT
                                        !.currentX = selection'.currentX,
                                        !.currentY = selection'.currentY,
                                        !.moveStartX = selection'.moveStartX,
                                        !.moveStartY = selection'.moveStartY]
                    /\ selection'.currentX
                         = selection.currentX + (lastPoint'.x - selection.moveStartX)
                    /\ selection'.currentY
                         = selection.currentY + (lastPoint'.y - selection.moveStartY)
               ELSE selection' = selection]_vars

\* The floating selection is being dragged and is away from where it was
\* lifted.
C25_Witness ==
    /\ LastOp = "mousemove"
    /\ activeTool = "move"
    /\ isInteracting
    /\ selection.isFloating
    /\ (selection.currentX # selection.boundingBox.x
          \/ selection.currentY # selection.boundingBox.y)

\* C26: the pointer leaving the canvas during a gesture does what the
\* release of the button does: a stroke on a layer is saved to the
\* layer's history, a lasso path is finalized, and a drag or a stroke on a
\* floating selection is saved to the sub-history.
C26_LeaveStopsLikeRelease ==
    [][Last(log').op = "mouseleave"
         => /\ (/\ isDrawing /\ ~selection.isFloating
                /\ activeTool \in {"brush", "eraser"}
                /\ interactionLayer # 0)
                 => /\ historyByLayer' = onDrawEnd(HistoryStore, LayerStore,
                                                   interactionLayer).h
                    /\ ~isDrawing'
            /\ (activeTool = "lasso" /\ selection.isDrawing)
                 => /\ ~selection'.isDrawing
                    /\ selection'.isFloating = ~Degenerate(selection.path)
            /\ (selection.isFloating /\ activeTool \in {"move", "brush", "eraser"})
                 => selection' = saveSelectionState(selection)]_vars

\* C23: the sub-history of the floating selection never holds more than
\* HISTORY_LIMIT entries.
C23_SubHistoryAtMostLimit ==
    Len(selection.tempHistory) <= HISTORY_LIMIT

----------------------------------------------------------------------------
(* Properties of the fill tool and of flood fill *)

\* C27: a click with the fill tool on a pixel that matches the colour of
\* the colour picker changes neither the surface nor the undo and redo
\* stacks of the layer, and inside a floating selection neither the temp
\* canvas nor the sub-history.
C27_MatchingFillIsNoOp ==
    [][(Last(log').op = "mousedown" /\ activeTool = "fill")
         => LET p == lastPoint'
                layer == getActiveLayer(LayerStore)
                x == p.x - selection.currentX
                y == p.y - selection.currentY
            IN  /\ (/\ ~selection.isFloating
                    /\ layer # 0
                    /\ colorsMatch(getPixelColor(p.x, p.y, CanvasWidth,
                                                 layers[layer].px), BrushColor))
                     => UNCHANGED <<layers, historyByLayer, redoStackByLayer>>
                /\ (/\ isPointInSelection(selection, p)
                    /\ x >= 0 /\ x < Len(selection.tempCanvas) /\ y = 0
                    /\ colorsMatch(getPixelColor(x, y, Len(selection.tempCanvas),
                                                 selection.tempCanvas), BrushColor))
                     => selection' = selection]_vars

\* The coordinates of the pixel at index i of the data of the fill.
FillX(i) == (i - 1) % fill.width

FillY(i) == (i - 1) \div fill.width

InClip(i) == isPointInPath(fill.clip, FillX(i), FillY(i))

\* The pixel at index i may be recoloured: its colour when the fill began
\* matches the colour of the seed, and it is inside the clip, if any.
Fillable(i) ==
    /\ colorsMatch(fill.original[i], fill.targetColor)
    /\ fill.clipped => InClip(i)

Adjacent(i, j) ==
    Abs(FillX(i) - FillX(j)) + Abs(FillY(i) - FillY(j)) = 1

\* The pixels a chain of adjacent fillable pixels links to those of S.
RECURSIVE Linked(_)
Linked(S) ==
    LET T == S \cup {j \in 1..Len(fill.data) :
                       Fillable(j) /\ \E i \in S : Adjacent(i, j)}
    IN  IF T = S THEN S ELSE Linked(T)

SeedIndex == IndexOf(fill, fill.seed)

\* The fill reached its loop: the seed is inside the clip, if any, and does
\* not match the fill colour.
FillStarted ==
    /\ fill.phase # "idle"
    /\ ~colorsMatch(fill.targetColor, fill.fillColor)
    /\ fill.clipped => InClip(SeedIndex)

\* C28: a fill under a clip changes no pixel outside the clip path, and no
\* pixel at all when its seed is outside.
C28_ClipContainsFill ==
    fill.clipped
      => /\ \A i \in 1..Len(fill.data) :
               fill.data[i] # fill.original[i] => InClip(i)
         /\ ~InClip(SeedIndex) => fill.data = fill.original

\* A fill under the concave clip changed pixels and left alone a pixel
\* outside the clip that matches the seed's colour.
C28_Witness ==
    /\ fill.phase = "returned"
    /\ fill.clipped
    /\ Len(fill.clip) > 4
    /\ fill.data # fill.original
    /\ \E i \in 1..Len(fill.data) :
          ~InClip(i) /\ colorsMatch(fill.original[i], fill.targetColor)

\* C29: a fill that reached its loop leaves the fill colour on the pixels
\* linked to the seed and every other pixel as it was.
C29_FillRecoloursLinked ==
    (fill.phase = "returned" /\ FillStarted)
      => fill.data = [i \in 1..Len(fill.data) |->
                        IF i \in Linked({SeedIndex}) THEN fill.fillColor
                        ELSE fill.original[i]]

\* A fill recoloured a pixel whose colour differs from the seed's within
\* the tolerance, and left another pixel alone.
C29_Witness ==
    /\ fill.phase = "returned"
    /\ FillStarted
    /\ \E j \in 1..Len(fill.data) :
          /\ fill.original[j] # fill.targetColor
          /\ fill.data[j] # fill.original[j]
    /\ \E i \in 1..Len(fill.data) : fill.data[i] = fill.original[i]

\* C30: a fill sets every pixel at most once and pushes it at most once
\* as the seed and once for each of its four neighbours, so that its loop
\* ends after at most one iteration for the seed and four for each pixel.
C30_FillWorkBounded ==
    fill.phase # "idle"
      => /\ \A i \in 1..Len(fill.data) :
               fill.set[i] <= 1 /\ fill.pushed[i] <= 5
         /\ fill.steps + Len(fill.queue) <= 1 + 4 * Len(fill.data)

\* A fill ended that had pushed a pixel more than once and set it once.
C30_Witness ==
    /\ fill.phase = "returned"
    /\ \E i \in 1..Len(fill.data) : fill.pushed[i] >= 2 /\ fill.set[i] = 1

----------------------------------------------------------------------------
(* The Delete key.                                                         *)

\* C34: the Delete key acts only on a floating selection.  There it clears
\* the pixels of the region surface inside the lasso clip and no others,
\* pushes exactly one sub-history entry, empties the sub-redo stack and
\* leaves the selection floating at the same position, the layers and their
\* histories untouched; with no floating selection (idle, or a lasso path
\* being drawn) it changes nothing.
C34_DeleteContentsOnlyWhenFloating ==
    [][(Last(log').op = "keydown" /\ Last(log').arg = "Delete")
       => /\ UNCHANGED <<layers, historyByLayer, redoStackByLayer, activeLayerId,
                         isInteracting, isDrawing, activeTool>>
          /\ IF selection.isFloating
             THEN /\ selection'.isFloating
                  /\ selection'.tempCanvas =
                         [k \in 1..Len(selection.tempCanvas) |->
                             IF Covers(selection.path, k - 1, 0) THEN "t"
                             ELSE selection.tempCanvas[k]]
                  /\ selection'.tempHistory =
                         Append(selection.tempHistory,
                                [imageData |-> selection'.tempCanvas,
                                 x |-> selection.currentX, y |-> selection.currentY])
                  /\ selection'.tempRedoStack = <<>>
                  /\ selection'.currentX = selection.currentX
                  /\ selection'.currentY = selection.currentY
                  /\ selection'.path = selection.path
                  /\ selection'.originLayerId = selection.originLayerId
             ELSE UNCHANGED selection]_vars

\* Delete has cleared painted pixels of a floating selection: the entry
\* it pushed differs from the one below it.
C34_Witness ==
    /\ LastOp = "keydown"
    /\ Last(log).arg = "Delete"
    /\ selection.isFloating
    /\ Len(selection.tempHistory) = Last(log).sub + 1
    /\ Last(log).sub >= 1
    /\ selection.tempHistory[Last(log).sub].imageData # selection.tempCanvas
    /\ \E k \in 1..Len(selection.tempCanvas) : selection.tempCanvas[k] = "t"

\* Delete was pressed while a lasso path was being drawn.
C34_WitnessDrawingPath ==
    /\ LastOp = "keydown"
    /\ Last(log).arg = "Delete"
    /\ selection.isDrawing
    /\ Len(selection.path) >= 2

----------------------------------------------------------------------------
(* The modes of the selection.                                             *)

\* C37: the selection is never both drawing a path and floating, so it is
\* in exactly one of Idle (neither flag), DrawingPath and Floating; a
\* floating selection has a temp canvas, a non-empty path normalized to its
\* bounding box (smallest x and smallest y are 0) and at least one
\* sub-history entry; and undoSelectionChange with at most the baseline
\* entry in the sub-history changes nothing.
C37_SelectionModeWellFormed ==
    /\ ~(selection.isDrawing /\ selection.isFloating)
    /\ selection.isFloating
       => /\ Len(selection.tempCanvas) > 0
          /\ Len(selection.path) > 0
          /\ MinOf({selection.path[k].x : k \in 1..Len(selection.path)}) = 0
          /\ MinOf({selection.path[k].y : k \in 1..Len(selection.path)}) = 0
          /\ Len(selection.tempHistory) >= 1
    /\ Len(selection.tempHistory) <= 1
       => undoSelectionChange(selection) = selection

\* A selection floats away from where it was lifted, with nothing but its
\* baseline in the sub-history and an entry to redo.
C37_Witness ==
    /\ selection.isFloating
    /\ Len(selection.tempHistory) = 1
    /\ Len(selection.tempRedoStack) > 0
    /\ selection.currentX # selection.boundingBox.x

----------------------------------------------------------------------------
(* The undo and redo buttons while a selection floats.                     *)

\* C38: while a selection floats, the undo button with more than one entry
\* in the sub-history and the redo button with a non-empty sub-redo stack
\* act on the sub-history: the entry moves between the two stacks, and
\* nothing else changes but the temp canvas and the position, which become
\* those of the entry now on top; the layers and their undo and redo stacks
\* stay as they are.  The redo button never changes a layer or a layer's
\* stacks while a selection floats.
C38_ButtonsActOnSubHistoryFirst ==
    [][/\ (Last(log').op = "undoBtn" /\ selection.isFloating
            /\ Len(selection.tempHistory) > 1)
          => /\ UNCHANGED <<layers, historyByLayer, redoStackByLayer, activeLayerId>>
             /\ selection'.tempHistory = Front(selection.tempHistory)
             /\ selection'.tempRedoStack =
                    Append(selection.tempRedoStack, Last(selection.tempHistory))
             /\ selection' = [selection EXCEPT
                                 !.tempHistory = selection'.tempHistory,
                                 !.tempRedoStack = selection'.tempRedoStack,
                                 !.tempCanvas = Last(selection'.tempHistory).imageData,
                                 !.currentX = Last(selection'.tempHistory).x,
                                 !.currentY = Last(selection'.tempHistory).y]
       /\ (Last(log').op = "redoBtn" /\ selection.isFloating
            /\ Len(selection.tempRedoStack) > 0)
          => /\ selection'.tempRedoStack = Front(selection.tempRedoStack)
             /\ selection'.tempHistory =
                    Append(selection.tempHistory, Last(selection.tempRedoStack))
             /\ selection' = [selection EXCEPT
                                 !.tempHistory = selection'.tempHistory,
                                 !.tempRedoStack = selection'.tempRedoStack,
                                 !.tempCanvas = Last(selection'.tempHistory).imageData,
                                 !.currentX = Last(selection'.tempHistory).x,
                                 !.currentY = Last(selection'.tempHistory).y]
       /\ (Last(log').op = "redoBtn" /\ selection.isFloating)
          => UNCHANGED <<layers, historyByLayer, redoStackByLayer, activeLayerId>>
      ]_vars

\* The undo button has taken back the second of two edits of a floating
\* selection after a redo: both sub-history stacks hold entries.
C38_Witness ==
    /\ LastOp = "undoBtn"
    /\ selection.isFloating
    /\ Last(log).sub = 3
    /\ Len(selection.tempHistory) = 2
    /\ Len(selection.tempRedoStack) >= 1
    /\ Last(selection.tempRedoStack).imageData # selection.tempCanvas

\* The redo button was clicked on a floating selection with nothing to
\* redo in the sub-history.
C38_WitnessRedoAtTop ==
    /\ LastOp = "redoBtn"
    /\ selection.isFloating
    /\ Len(selection.tempRedoStack) = 0
    /\ Len(selection.tempHistory) >= 2

----------------------------------------------------------------------------
(* A drag of the floating selection.                                       *)

\* C40: all through a drag of the floating selection with the move tool
\* (startMove at mousedown, moveSelection at every mousemove) the selection
\* has moved from where it was at startMove by the pointer's last position
\* minus the position startMove was called with, whatever the positions in
\* between; and the mouseup that ends the drag pushes one sub-history entry
\* that records that final position.
C40_DragMovesByPointerTravel ==
    [][/\ (isInteracting' /\ activeTool' = "move" /\ selection'.isFloating)
          => LET g == Last(log').grab
             IN  /\ g.on
                 /\ selection'.currentX - g.currentX = lastPoint'.x - g.x
                 /\ selection'.currentY - g.currentY = lastPoint'.y - g.y
       /\ (Last(log').op = "mouseup" /\ activeTool = "move" /\ selection.isFloating)
          => LET g == Last(log).grab
             IN  /\ g.on
                 /\ selection'.currentX = g.currentX + (lastPoint.x - g.x)
                 /\ selection'.currentY = g.currentY + (lastPoint.y - g.y)
                 /\ Len(selection'.tempHistory) = Len(selection.tempHistory) + 1
                 /\ Last(selection'.tempHistory).x = selection'.currentX
                 /\ Last(selection'.tempHistory).y = selection'.currentY
      ]_vars

\* A drag has ended with the selection away from where it was grabbed, and
\* the entry the mouseup pushed records a position other than that of the
\* entry below it.
C40_Witness ==
    /\ LastOp = "mouseup"
    /\ activeTool = "move"
    /\ selection.isFloating
    /\ Len(selection.tempHistory) = Last(log).sub + 1
    /\ Last(log).sub >= 1
    /\ selection.tempHistory[Last(log).sub].x # selection.currentX
    /\ selection.tempHistory[Last(log).sub].y # selection.currentY

----------------------------------------------------------------------------
(* Reordering the layer list.                                              *)

\* The layers other than the one at index i, in their order.
Others(ls, i) == RemoveAt(ls, i)

\* C35: a drop of the src-th list item on another one, the target-th,
\* leaves a permutation of the same layers: the dragged layer has a new
\* index k, the other layers keep their relative order, and the dragged
\* layer sits immediately below the target layer (at the next higher
\* index) when the drop was below, immediately above it otherwise; the
\* active layer id is unchanged.
C35_DropMovesSourceNextToTarget ==
    [][Last(log').op = "drop"
       => LET a == Last(log').arg
              targetInOthers == IF a.src < a.target THEN a.target - 1 ELSE a.target
              k == IF a.dropBelow THEN targetInOthers + 1 ELSE targetInOthers
          IN  /\ activeLayerId' = activeLayerId
              /\ a.src # a.target
                 => /\ Len(layers') = Len(layers)
                    /\ layers'[k] = layers[a.src]
                    /\ Others(layers', k) = Others(layers, a.src)
                    /\ Others(layers', k)[targetInOthers] = layers[a.target]
              /\ a.src = a.target => layers' = layers]_vars

\* A drop has moved the bottom layer of three between the other two, whose
\* ids differ from its own.
C35_Witness ==
    /\ LastOp = "drop"
    /\ Len(layers) = 3
    /\ Last(log).arg.src = 3
    /\ Last(log).arg.target = 1
    /\ Last(log).arg.dropBelow
    /\ layers[2].id = Last(log).id
    /\ layers[1].id # layers[2].id
    /\ layers[3].id # layers[2].id

----------------------------------------------------------------------------
(* The layer stack and the active layer.                                   *)

\* C39: the layer stack is never empty, and the active layer id is the id
\* of a layer in the stack, whatever layers are added, deleted, selected
\* and reordered.
C39_ActiveLayerInStack ==
    /\ Len(layers) >= 1
    /\ \E i \in 1..Len(layers) : layers[i].id = activeLayerId

\* The active layer was deleted from a reordered stack of three, and
\* another layer of the stack is active now.
C39_Witness ==
    /\ LastOp = "deleteLayerBtn"
    /\ Len(layers) = 2
    /\ Last(log).id # activeLayerId
    /\ layers[1].id < layers[2].id
    /\ getActiveLayer(LayerStore) # 0

----------------------------------------------------------------------------
(* Layers and their histories.                                             *)

\* C36: every layer of the stack has a history with at least one undo
\* entry, and when no pointer gesture is in progress the canvas of every
\* layer equals the newest entry of its own undo stack, with or without a
\* floating selection.
C36_LayersMatchTheirHistory ==
    \A i \in 1..Len(layers) :
        /\ MapHas(historyByLayer, layers[i].id)
        /\ Len(historyByLayer[layers[i].id]) >= 1
        /\ ~isInteracting => layers[i].px = Last(historyByLayer[layers[i].id])

----------------------------------------------------------------------------
(* The viewport.                                                           *)

\* The values of window.devicePixelRatio considered.
DevicePixelRatios == {1, 2}

PanOps == {"panMouseDown", "panMouseMove", "panMouseUp", "panMouseLeave"}

\* C31: getTransformedPoint is the inverse of the transform the view is
\* rendered with, whatever the zoom and the offsets: a screen point p,
\* taken to the drawing by getTransformedPoint and back to the visible
\* canvas by the transform of applyTransform, arrives at the pixel of the
\* canvas that is displayed at p.  That pixel is p itself for viewport.js,
\* and p scaled by the device pixel ratio for the module of old.js, which
\* scales its argument by that ratio.
C31_RoundTripYieldsScreenPoint ==
    \A p \in Points :
        /\ applyTransform(viewport, getTransformedPoint(viewport, p.x, p.y))
               = [x |-> Number(p.x), y |-> Number(p.y)]
        /\ \A dpr \in DevicePixelRatios :
               applyTransform(viewport,
                              getTransformedPointScaled(viewport, p.x, p.y, dpr))
                   = [x |-> CanvasPixel(p.x, dpr), y |-> CanvasPixel(p.y, dpr)]

\* The view has been zoomed at a point away from the origin and dragged:
\* the zoom is not 1 and neither offset is a whole number.
C31_Witness ==
    /\ LastOp = "panMouseMove"
    /\ viewport.zoom # Number(1)
    /\ viewport.offsetX.d > 1
    /\ viewport.offsetY.d > 1
    /\ viewport.panStartX # lastPoint.x

\* C32: a wheel event leaves the point of the drawing under the cursor
\* where it was: getTransformedPoint yields the same point for the cursor
\* position after zoomOnWheel as before it, for either direction of the
\* wheel, also when the zoom is clamped at a limit.
C32_ZoomKeepsPointUnderCursor ==
    [][Last(log').op = "wheel"
       => LET a == Last(log').arg
          IN  getTransformedPoint(viewport', a.p.x, a.p.y)
                  = getTransformedPoint(viewport, a.p.x, a.p.y)]_vars

\* A wheel event away from the origin of a panned view has asked to zoom in
\* at the upper limit: the zoom is clamped, 20 as before.
C32_Witness ==
    /\ LastOp = "wheel"
    /\ Last(log).arg.deltaY < 0
    /\ Last(log).arg.zoom = Number(20)
    /\ viewport.zoom = Number(20)
    /\ Last(log).arg.p.x # 0
    /\ viewport.offsetX # Number(0)
    /\ viewport.offsetX # Number(Last(log).arg.p.x)

\* A wheel event away from the origin has changed the zoom and both
\* offsets of a view zoomed before.
C32_WitnessUnclamped ==
    /\ LastOp = "wheel"
    /\ Last(log).arg.deltaY > 0
    /\ Last(log).arg.zoom = Ratio(11, 10)
    /\ viewport.zoom = Number(1)
    /\ viewport.offsetX.d > 1
    /\ viewport.offsetY.d > 1

\* C33: the zoom stays within [0.1, 20] whatever wheel events and pans
\* happen; the handlers of the pan tool never change the zoom; and they
\* change an offset only in a mousemove while isPanning is set, that is
\* after startPan and before stopPan.
C33_ZoomInRangePanKeepsZoom ==
    [][/\ ~Less(viewport'.zoom, Ratio(1, 10))
       /\ ~Less(Number(20), viewport'.zoom)
       /\ Last(log').op \in PanOps
          => /\ viewport'.zoom = viewport.zoom
             /\ (viewport'.offsetX # viewport.offsetX
                  \/ viewport'.offsetY # viewport.offsetY)
                => /\ Last(log').op = "panMouseMove"
                   /\ viewport.isPanning
                   /\ isInteracting
             /\ ~viewport.isPanning /\ Last(log').op # "panMouseDown"
                => viewport' = viewport]_vars

\* A drag with the pan tool has moved a view that a wheel event had zoomed
\* out from the upper limit.
C33_Witness ==
    /\ LastOp = "panMouseMove"
    /\ viewport.isPanning
    /\ viewport.zoom = Ratio(200, 11)
    /\ viewport.panStartX # lastPoint.x
    /\ viewport.panStartY # lastPoint.y

====
